---- MODULE Spec2Model ----
(***************************************************************************)
(* Vehicle-motion simulation of lmmx/roundel: the kinematic update of a    *)
(* vehicle along its route, the canvas simulator ("sim": global state,     *)
(* interval-driven animation loop, data-source switch with asynchronous    *)
(* TSV load) and the map simulator ("map": live arrivals -> TfL geometry   *)
(* -> sample routes cascade).                                              *)
(*                                                                         *)
(* Numbers.  f32/f64 fractions are modelled in fixed point: ONE stands for *)
(* 1.0, so a fraction of 0.9 is 900 and a speed of 0.005 is 5.  Station    *)
(* coordinates and vehicle positions are fixed-point too (10000 is 10.0).  *)
(* Math.random() is a nondeterministic draw from RandomDraws, a set of     *)
(* fixed-point values of [0, 1) (SpeedDraws and MapDraws where a draw sets *)
(* a speed or the position of a vehicle of the map).                       *)
(***************************************************************************)
EXTENDS Integers, Sequences, FiniteSets, TLC

VARIABLES
    app,                \* which program runs: "kin" | "sim" | "map"
    routes,             \* SharedState.routes / SimulationState.routes
    vehicles,           \* SharedState.vehicles / SimulationState.vehicles
    debug_mode,         \* SharedState.debug_mode (sim)
    paused,             \* SimulationControl.paused (sim) / SimulationState.is_paused (map)
    update_interval_ms, \* SimulationControl.update_interval_ms (sim)
    interval_id_cell,   \* ANIMATION_INTERVAL_ID, a OnceCell (sim); window.__rustAnimIntervalId (map)
    intervals,          \* the browser's active setInterval handles
    next_handle,        \* the next handle the browser hands out
    loads,              \* asynchronous fetches in flight
    animation_frame_id, \* SimulationState.animation_frame_id (map)
    ticks,              \* number of ticks taken since the last rebuild
    last_op,            \* the operation that produced this state (kin, sim);
                        \* the last resolution of the data source or toggle of
                        \* the pause flag (map)
    frame,              \* what the step that produced this state handed to the
                        \* renderer, when that step was a tick of the animation loop
    camera,             \* CAMERA (sim)
    drag,               \* DRAG (sim)
    prev_touch_distance,\* PREV_TOUCH_DISTANCE of the touch listeners (sim)
    inputs,             \* number of pointer, wheel and touch events delivered
    calibration,        \* SimulationControl.auto_adjust, frame_count, total_frame_time (sim)
    vehicle_counts      \* SimulationControl.vehicle_counts (sim)

vars == <<app, routes, vehicles, debug_mode, paused, update_interval_ms,
          interval_id_cell, intervals, next_handle, loads, animation_frame_id,
          ticks, last_op, frame, camera, drag, prev_touch_distance, inputs,
          calibration, vehicle_counts>>

----------------------------------------------------------------------------
(* Fixed point and bounds *)

ONE == 1000

MaxStations == 4        \* longest route of the kinematics specification
MaxLaps == 2            \* whole segments a vehicle of the kinematics specification
                        \* may cover in one tick, on top of a part of one

RandomDraws == {0, ONE \div 2}

\* The draws that set a vehicle's speed are taken at the low end of the range.
SpeedDraws == {0}

\* The values of the closure `rng = || Math::random() as f32`: the cast
\* rounds the f64 draw to the nearest f32, and the draws from 1 - 2^-25
\* round to 1.0.  Whole fleets are built from RandomDraws alone.
RngDraws == RandomDraws \cup {ONE}

Mul(a, b) == (a * b) \div ONE

\* `as usize` of an i32 on wasm32: a negative value wraps to 2^32 + i, beyond
\* the length of every vector; TLC's integers stop at 2^31 - 1, which stands
\* for all those wrapped values.
AsUsize(i) == IF i < 0 THEN 2147483647 ELSE i

----------------------------------------------------------------------------
(* Routes *)

Route(stations) == [stations |-> stations]

\* generate_route_path with the random offsets drawn as 0: `waypoints`
\* interpolated points between start and end, both included.
GenerateRoutePath(start, end, waypoints) ==
    [k \in 1..(waypoints + 2) |->
        IF k = 1 THEN start
        ELSE IF k = waypoints + 2 THEN end
        ELSE <<start[1] + ((end[1] - start[1]) * (k - 1)) \div (waypoints + 1),
               start[2] + ((end[2] - start[2]) * (k - 1)) \div (waypoints + 1)>>]

\* The 0-based station `i` of a route.
Station(route, i) == route.stations[i + 1]

----------------------------------------------------------------------------
(* Vehicle::update_position *)

\* Mutant of Arrive: the route wraps to its other end, the direction is kept.
ArriveWrapping(v, route) ==
    [v EXCEPT !.fraction = @ - ONE,
              !.last_station = v.next_station,
              !.next_station = (v.next_station + v.direction) % Len(route.stations)]

\* Mutant of Arrive: the bounds test is off by one at the far end, the
\* vehicle turns round one station early.
ArriveTurningEarly(v, route) ==
    LET next == v.next_station + v.direction
        dir  == IF next < 0 \/ AsUsize(next) >= Len(route.stations) - 1
                THEN -v.direction ELSE v.direction
    IN  [v EXCEPT !.fraction = @ - ONE,
                  !.last_station = v.next_station,
                  !.direction = dir,
                  !.next_station = AsUsize(v.next_station + dir)]

\* One pass of the `while self.fraction >= 1.0` body: the vehicle has
\* reached next_station.
Arrive(v, route) ==
    LET next == v.next_station + v.direction
        dir  == IF next < 0 \/ AsUsize(next) >= Len(route.stations)
                THEN -v.direction ELSE v.direction
    IN  [v EXCEPT !.fraction = @ - ONE,
                  !.last_station = v.next_station,
                  !.direction = dir,
                  !.next_station = AsUsize(v.next_station + dir)]

\* Mutant of Normalise: `if` in place of `while`, one arrival at most.
NormaliseOnce(v, route) ==
    IF v.fraction >= ONE THEN Arrive(v, route) ELSE v

\* Mutant of Normalise: the body runs before the test (do .. while).
RECURSIVE NormaliseBodyFirst(_, _)
NormaliseBodyFirst(v, route) ==
    LET w == Arrive(v, route)
    IN  IF w.fraction >= ONE THEN NormaliseBodyFirst(w, route) ELSE w

RECURSIVE Normalise(_, _)
Normalise(v, route) ==
    IF v.fraction >= ONE THEN Normalise(Arrive(v, route), route) ELSE v

Interpolate(v, route) ==
    LET p1 == Station(route, v.last_station)
        p2 == Station(route, v.next_station)
    IN  [v EXCEPT !.x = p1[1] + Mul(p2[1] - p1[1], v.fraction),
                  !.y = p1[2] + Mul(p2[2] - p1[2], v.fraction)]

update_position(v, route) ==
    Interpolate(Normalise([v EXCEPT !.fraction = @ + v.speed], route), route)

Vehicle(type, route_index, direction, last, next, fraction, speed, route) ==
    [vehicle_type |-> type, route_index |-> route_index, direction |-> direction,
     last_station |-> last, next_station |-> next, fraction |-> fraction,
     speed |-> speed, x |-> 0, y |-> 0, spawned_on |-> route]


----------------------------------------------------------------------------
(* sim: SharedState (model/state.rs, model/route_builder.rs)               *)
(*                                                                         *)
(* The program's sizes are scaled down together: it builds 10 + 100 random *)
(* routes, treats the first 10 routes of a catalog as train routes and     *)
(* spreads 1000 vehicles of each type over the routes of that type.        *)

RandomTrainRoutes == 1  \* build_random_train_routes: 10 routes
RandomBusRoutes == 1    \* build_random_bus_routes: 30 + 20 + 50 routes
TrainRouteCap == 1      \* init_vehicles: the first 10 routes are train routes
FleetPerType == 2       \* init_vehicles: 1000 vehicles of each type
MaxTsvRows == 1         \* rows of a fetched TSV file that parse into a route
MaxTicks == 2           \* kinematic passes explored after a rebuild
MaxHandles == 3         \* setInterval handles the browser hands out
MaxLoads == 2           \* fetches in flight at once

Min(a, b) == IF a < b THEN a ELSE b

Central == <<500 * ONE, 500 * ONE>>

\* Random draws of the route builders (waypoint counts, offsets) are taken
\* as 0: every route is the evenly divided segment from start to end.
build_random_train_routes ==
    [k \in 1..RandomTrainRoutes |->
        Route(GenerateRoutePath(Central,
                                <<Central[1] + 50 * ONE * k, Central[2] + 50 * ONE>>, 4))]

build_random_bus_routes ==
    [k \in 1..RandomBusRoutes |->
        Route(GenerateRoutePath(Central,
                                <<Central[1] - 60 * ONE * k, Central[2] - 60 * ONE>>, 5))]

build_random_routes == build_random_train_routes \o build_random_bus_routes

\* One route per parsed row: 3 waypoints for a train route, 5 or more for a
\* bus route.
build_real_train_routes(rows) ==
    [k \in 1..rows |->
        Route(GenerateRoutePath(<<100 * ONE * k, 0>>, <<100 * ONE * k + 40 * ONE, 80 * ONE>>, 3))]

build_real_bus_routes(rows) ==
    [k \in 1..rows |->
        Route(GenerateRoutePath(<<0, 100 * ONE * k>>, <<60 * ONE, 100 * ONE * k + 120 * ONE>>, 5))]

\* The vehicles one direction loop of init_vehicles creates on a route:
\* none when the route has fewer than 2 stations.
DirectionSlots(type, route_index, direction, count, route) ==
    IF Len(route.stations) < 2 THEN <<>>
    ELSE [k \in 1..count |->
            [vehicle_type |-> type, route_index |-> route_index,
             direction |-> direction, i |-> k - 1, count |-> count]]

RouteSlots(type, route_index, per_route, route) ==
    LET count_fwd == per_route \div 2
        count_bwd == per_route - count_fwd
    IN  DirectionSlots(type, route_index, 1, count_fwd, route)
        \o DirectionSlots(type, route_index, -1, count_bwd, route)

\* The loop `for r_i in 0..num_routes` over the routes first .. first + num - 1.
RECURSIVE TypeSlots(_, _, _, _, _)
TypeSlots(type, rs, first, num, per_route) ==
    IF num = 0 THEN <<>>
    ELSE TypeSlots(type, rs, first, num - 1, per_route)
         \o (IF first + num - 1 >= Len(rs) THEN <<>>
             ELSE RouteSlots(type, first + num - 1, per_route, rs[first + num]))

\* Buses are created first, on the routes after the train routes.  The
\* per-route counts of a type without routes (10 buses, 100 trains in the
\* source) are never used: the loop over its routes is empty.
SpawnSlots(rs) ==
    LET train_routes == Min(Min(Len(rs), TrainRouteCap + 1), TrainRouteCap)
        num_bus_routes == Len(rs) - train_routes
        vehicles_per_bus_route ==
            IF num_bus_routes > 0 THEN FleetPerType \div num_bus_routes
            ELSE FleetPerType \div 100
        vehicles_per_train_route ==
            IF train_routes > 0 THEN FleetPerType \div train_routes
            ELSE FleetPerType \div 10
    IN  TypeSlots("Bus", rs, train_routes, num_bus_routes, vehicles_per_bus_route)
        \o TypeSlots("Train", rs, 0, train_routes, vehicles_per_train_route)

\* Mutant of Spawn: a backward vehicle heads for the station past the end,
\* n_stations - 1 + direction being taken before the direction is negated.
SpawnPastRouteEnd(slot, rs, fraction_draw, speed_draw) ==
    LET route == rs[slot.route_index + 1]
        n_stations == Len(route.stations)
        last_station == IF slot.direction = 1 THEN 0 ELSE n_stations - 1
        f_lo == (slot.i * ONE) \div slot.count
        f_hi == ((slot.i + 1) * ONE) \div slot.count
    IN  [Vehicle(slot.vehicle_type, slot.route_index, slot.direction,
                 last_station, IF slot.direction = 1 THEN 1 ELSE n_stations - 1,
                 f_lo + Mul(f_hi - f_lo, fraction_draw),
                 (5 * ONE) \div 1000 + Mul(speed_draw, (10 * ONE) \div 1000), route)
         EXCEPT !.x = Station(route, last_station)[1],
                !.y = Station(route, last_station)[2]]

\* One vehicle of init_vehicles: its fraction is drawn in the i-th of
\* `count` slices of [0, 1), its speed in [0.005, 0.015), and
\* update_position is applied once.
NewVehicle(slot, rs, fraction_draw, speed_draw) ==
    LET route == rs[slot.route_index + 1]
        n_stations == Len(route.stations)
        last_station == IF slot.direction = 1 THEN 0 ELSE n_stations - 1
        next_station == IF slot.direction = 1 THEN 1 ELSE n_stations - 2
        f_lo == (slot.i * ONE) \div slot.count
        f_hi == ((slot.i + 1) * ONE) \div slot.count
        fraction == f_lo + Mul(f_hi - f_lo, fraction_draw)
        speed == (5 * ONE) \div 1000 + Mul(speed_draw, (10 * ONE) \div 1000)
    IN  Vehicle(slot.vehicle_type, slot.route_index, slot.direction,
                last_station, next_station, fraction, speed, route)

\* The vehicle pushed for a slot: the literal after `v.update_position(route)`.
Spawn(slot, rs, fraction_draw, speed_draw) ==
    update_position(NewVehicle(slot, rs, fraction_draw, speed_draw), rs[slot.route_index + 1])

\* The outcomes of init_vehicles on a state with routes rs and vehicles vs:
\* the new routes and vehicles, one outcome per vector of random draws.
init_vehicles(rs, vs, debug) ==
    IF rs = <<>> /\ ~debug THEN {[routes |-> rs, vehicles |-> vs]}
    ELSE LET rs2 == IF rs = <<>> THEN build_random_routes ELSE rs
             slots == SpawnSlots(rs2)
         IN  {[routes |-> rs2,
               vehicles |-> vs \o [k \in 1..Len(slots) |->
                                      Spawn(slots[k], rs2, d[k][1], d[k][2])]] :
                d \in [1..Len(slots) -> RandomDraws \X SpeedDraws]}

update_with_real_routes(rs, vs, bus_rows, train_rows) ==
    init_vehicles(build_real_train_routes(train_rows) \o build_real_bus_routes(bus_rows),
                  <<>>, FALSE)

\* Mutant of update_all: the loop stops one vehicle short.
update_all_but_last(vs, rs) ==
    [k \in 1..Len(vs) |->
        IF k < Len(vs) /\ vs[k].route_index < Len(rs)
        THEN update_position(vs[k], rs[vs[k].route_index + 1])
        ELSE vs[k]]

update_all(vs, rs) ==
    [k \in 1..Len(vs) |->
        IF vs[k].route_index < Len(rs)
        THEN update_position(vs[k], rs[vs[k].route_index + 1])
        ELSE vs[k]]

----------------------------------------------------------------------------
(* sim: the animation loop, the controls and the data-source switch        *)
(* (ui/core.rs)                                                            *)

\* Mutant of Advances: the pause flag is not looked at.
AdvancesAlways(is_paused) == TRUE

\* The gate `if !paused` of the tick closures.
Advances(is_paused) == ~is_paused

\* The value of `frame` after a step that was no tick, after a tick that
\* skipped the draw, and after a tick that drew the state rs, vs.
NoFrame == [tick |-> FALSE]

NotDrawn == [tick |-> TRUE, drawn |-> FALSE]

Drawn(rs, vs) == [tick |-> TRUE, drawn |-> TRUE, routes |-> rs, vehicles |-> vs]

\* The canvas element's width and height.
CanvasWidth == 1000 * ONE

CanvasHeight == 1000 * ONE

Div(a, b) == (a * ONE) \div b

\* CAMERA as camera.rs constructs it; selected_vehicle_index is an Option,
\* <<>> or <<index>>.
DefaultCamera ==
    [pan_x |-> 0, pan_y |-> 0, scale |-> ONE,
     selected_vehicle_index |-> <<>>, follow_mode |-> FALSE]

\* DRAG: DragState::default().
DefaultDrag == [is_dragging |-> FALSE, last_x |-> 0, last_y |-> 0]

\* The calibration fields of SIMULATION_CONTROL as control.rs constructs it.
DefaultCalibration == [auto_adjust |-> TRUE, frame_count |-> 0, total_frame_time |-> 0]

\* VehicleCounts::default().
DefaultCounts == [buses |-> 0, trains |-> 0, total |-> 0]

\* The number of vehicles of type t among the first n of vs.
RECURSIVE CountOfType(_, _, _)
CountOfType(vs, t, n) ==
    IF n = 0 THEN 0
    ELSE CountOfType(vs, t, n - 1) + (IF vs[n].vehicle_type = t THEN 1 ELSE 0)

\* What update_vehicle_counts stores for the fleet vs.
\* Mutant of CountVehicles: every vehicle is counted as a bus.
CountVehiclesAsBuses(vs) == [buses |-> Len(vs), trains |-> 0, total |-> Len(vs)]

CountVehicles(vs) ==
    LET buses == CountOfType(vs, "Bus", Len(vs))
        trains == CountOfType(vs, "Train", Len(vs))
    IN  [buses |-> buses, trains |-> trains, total |-> buses + trains]

\* The follow-mode step of the tick closure: the camera is centred on the
\* selected vehicle.
FollowVehicle(cam, vs) ==
    IF cam.follow_mode /\ cam.selected_vehicle_index # <<>>
       /\ cam.selected_vehicle_index[1] < Len(vs)
    THEN LET vehicle == vs[cam.selected_vehicle_index[1] + 1]
         IN  [cam EXCEPT !.pan_x = vehicle.x - Div(CanvasWidth, cam.scale) \div 2,
                         !.pan_y = vehicle.y - Div(CanvasHeight, cam.scale) \div 2]
    ELSE cam

TsvLoad == [kind |-> "tsv"]

RemoveAt(seq, i) == [k \in 1..(Len(seq) - 1) |-> IF k < i THEN seq[k] ELSE seq[k + 1]]

\* start_animation_loop, after the caller cleared the handles `cleared`: a
\* new interval is installed; ANIMATION_INTERVAL_ID is a OnceCell (empty
\* <<>> or full <<handle>>), `set` stores the handle only while it is empty.
start_animation_loop(cleared) ==
    /\ intervals' = (intervals \ cleared) \cup {next_handle}
    /\ next_handle' = next_handle + 1
    /\ interval_id_cell' = (IF interval_id_cell = <<>> THEN <<next_handle>>
                            ELSE interval_id_cell)

\* main_js: the checkbox gives the initial mode.
SimInit ==
    /\ app = "sim"
    /\ \E use_random_routes \in BOOLEAN :
         /\ debug_mode = use_random_routes
         /\ \E built \in init_vehicles(
                    IF use_random_routes THEN build_random_routes ELSE <<>>,
                    <<>>, use_random_routes) :
               /\ routes = built.routes
               /\ vehicles = built.vehicles
         /\ loads = (IF use_random_routes THEN <<>> ELSE <<TsvLoad>>)
    /\ paused = FALSE
    /\ update_interval_ms = 16
    /\ interval_id_cell = <<1>>
    /\ intervals = {1}
    /\ next_handle = 2
    /\ animation_frame_id = <<>>
    /\ ticks = 0
    /\ last_op = [op |-> "main_js"]
    /\ frame = NoFrame
    /\ camera = DefaultCamera
    /\ drag = DefaultDrag
    /\ prev_touch_distance = 0
    /\ inputs = 0
    /\ calibration = DefaultCalibration
    /\ vehicle_counts = CountVehicles(vehicles)

\* The closure of start_animation_loop, fired by the interval `handle`.
SimTick(handle) ==
    /\ app = "sim"
    /\ handle \in intervals
    /\ IF Advances(paused)
       THEN /\ ticks < MaxTicks
            /\ vehicles' = update_all(vehicles, routes)
            /\ ticks' = ticks + 1
       ELSE UNCHANGED <<vehicles, ticks>>
    /\ last_op' = [op |-> "tick", handle |-> handle, updated |-> ~paused]
    /\ camera' = (IF Advances(paused) THEN FollowVehicle(camera, vehicles') ELSE camera)
    /\ vehicle_counts' = (IF Advances(paused) THEN CountVehicles(vehicles') ELSE vehicle_counts)
    /\ frame' = Drawn(routes, vehicles')
    /\ UNCHANGED <<app, routes, debug_mode, paused, update_interval_ms, drag,
                   prev_touch_distance, inputs, calibration,
                   interval_id_cell, intervals, next_handle, loads, animation_frame_id>>

change_animation_interval(new_interval_ms) ==
    /\ app = "sim"
    /\ next_handle <= MaxHandles
    /\ update_interval_ms' = new_interval_ms
    /\ IF interval_id_cell # <<>>
       THEN start_animation_loop({interval_id_cell[1]})
       ELSE UNCHANGED <<intervals, next_handle, interval_id_cell>>
    /\ last_op' = [op |-> "change_animation_interval"]
    /\ frame' = NoFrame
    /\ UNCHANGED <<app, camera, drag, prev_touch_distance, inputs, calibration, vehicle_counts,
                   routes, vehicles, debug_mode, paused, loads, animation_frame_id, ticks>>

\* Mutant of toggle_pause: the fleet is dropped along with the flip.
toggle_pause_dropping_fleet ==
    /\ app = "sim"
    /\ paused' = ~paused
    /\ vehicles' = <<>>
    /\ last_op' = [op |-> "toggle_pause", returned |-> ~paused]
    /\ frame' = NoFrame
    /\ UNCHANGED <<app, camera, drag, prev_touch_distance, inputs, calibration, vehicle_counts,
                   routes, debug_mode, update_interval_ms,
                   interval_id_cell, intervals, next_handle, loads, animation_frame_id, ticks>>

toggle_pause ==
    /\ app = "sim"
    /\ paused' = ~paused
    /\ last_op' = [op |-> "toggle_pause", returned |-> ~paused]
    /\ frame' = NoFrame
    /\ UNCHANGED <<app, camera, drag, prev_touch_distance, inputs, calibration, vehicle_counts,
                   routes, vehicles, debug_mode, update_interval_ms,
                   interval_id_cell, intervals, next_handle, loads, animation_frame_id, ticks>>

\* Mutant of set_data_source_mode: only the routes are cleared.
ClearedKeepingVehicles(vs) == vs

\* set_data_source_mode clears both vectors.
Cleared(vs) == <<>>

\* Mutant of PauseAfterSwitch: the pause set at the start of the switch is
\* never lifted.
PauseAfterSwitchKept(use_random, was_paused) == TRUE

\* `control.paused = true` at the start of set_data_source_mode and
\* `if use_random && !was_paused { control.paused = false }` at its end.
PauseAfterSwitch(use_random, was_paused) ==
    IF use_random /\ ~was_paused THEN FALSE ELSE TRUE

set_data_source_mode(use_random) ==
    /\ app = "sim"
    /\ debug_mode' = use_random
    /\ IF use_random
       THEN /\ \E built \in init_vehicles(build_random_routes, Cleared(vehicles), TRUE) :
                  /\ routes' = built.routes
                  /\ vehicles' = built.vehicles
            /\ UNCHANGED loads
       ELSE /\ Len(loads) < MaxLoads
            /\ routes' = <<>>
            /\ vehicles' = Cleared(vehicles)
            /\ loads' = Append(loads, TsvLoad)
    /\ paused' = PauseAfterSwitch(use_random, paused)
    /\ ticks' = 0
    /\ vehicle_counts' = CountVehicles(vehicles')
    /\ last_op' = [op |-> "set_data_source_mode", use_random |-> use_random]
    /\ frame' = NoFrame
    /\ UNCHANGED <<app, camera, drag, prev_touch_distance, inputs, calibration,
                   update_interval_ms, interval_id_cell, intervals, next_handle,
                   animation_frame_id>>

\* load_real_route_data, the fetch `i` completes with both files.
LoadCompletesOk(i, bus_rows, train_rows) ==
    /\ app = "sim"
    /\ i \in 1..Len(loads)
    /\ loads[i].kind = "tsv"
    /\ IF ~debug_mode
       THEN /\ \E built \in update_with_real_routes(routes, vehicles, bus_rows, train_rows) :
                  /\ routes' = built.routes
                  /\ vehicles' = built.vehicles
            /\ paused' = FALSE
            /\ ticks' = 0
       ELSE UNCHANGED <<routes, vehicles, paused, ticks>>
    /\ loads' = RemoveAt(loads, i)
    /\ vehicle_counts' = CountVehicles(vehicles')
    /\ last_op' = [op |-> "load_ok", stale |-> debug_mode,
                   train_rows |-> IF debug_mode THEN 0 ELSE train_rows,
                   bus_rows |-> IF debug_mode THEN 0 ELSE bus_rows]
    /\ frame' = NoFrame
    /\ UNCHANGED <<app, camera, drag, prev_touch_distance, inputs, calibration,
                   debug_mode, update_interval_ms, interval_id_cell,
                   intervals, next_handle, animation_frame_id>>

\* load_real_route_data, the fetch `i` fails.
LoadCompletesErr(i) ==
    /\ app = "sim"
    /\ i \in 1..Len(loads)
    /\ loads[i].kind = "tsv"
    /\ paused' = FALSE
    /\ loads' = RemoveAt(loads, i)
    /\ last_op' = [op |-> "load_err", stale |-> debug_mode]
    /\ frame' = NoFrame
    /\ UNCHANGED <<app, camera, drag, prev_touch_distance, inputs, calibration, vehicle_counts,
                   routes, vehicles, debug_mode, update_interval_ms,
                   interval_id_cell, intervals, next_handle, animation_frame_id, ticks>>

SimNext ==
    \/ \E handle \in intervals : SimTick(handle)
    \/ \E ms \in {16, 33} : change_animation_interval(ms)
    \/ toggle_pause
    \/ \E use_random \in BOOLEAN : set_data_source_mode(use_random)
    \/ \E i \in 1..Len(loads), bus_rows \in 0..MaxTsvRows, train_rows \in 0..MaxTsvRows :
          LoadCompletesOk(i, bus_rows, train_rows)
    \/ \E i \in 1..Len(loads) : LoadCompletesErr(i)

SpecSim == SimInit /\ [][SimNext]_vars

\* The canvas simulator of a user who never presses the pause button.
SwitchNext ==
    \/ \E handle \in intervals : SimTick(handle)
    \/ \E use_random \in BOOLEAN : set_data_source_mode(use_random)
    \/ \E i \in 1..Len(loads), bus_rows \in 0..MaxTsvRows, train_rows \in 0..MaxTsvRows :
          LoadCompletesOk(i, bus_rows, train_rows)
    \/ \E i \in 1..Len(loads) : LoadCompletesErr(i)

SpecSwitch == SimInit /\ [][SwitchNext]_vars

----------------------------------------------------------------------------
(* sim: the camera and its input handlers (ui/camera.rs, ui/input/*.rs).   *)
(* Screen coordinates, pans and scales are fixed-point numbers; the        *)
(* canvas's bounding rectangle has its corner at the client origin.        *)

MaxInputs == 3          \* pointer, wheel and touch events delivered

ScaleMin == ONE \div 10

ScaleMax == 50 * ONE

ThresholdPx == 10 * ONE

F32Max == 2147483647

Abs(a) == IF a < 0 THEN -a ELSE a

\* a * a in fixed point, for |a| below 1000.0, without leaving 32 bits.
Sq(a) == LET b == Abs(a) IN (b \div ONE) * b + ((b % ONE) * b) \div ONE

\* The values of the DOM inputs cameraPanX, cameraPanY and cameraScale:
\* <<>> for a missing element or a text that is no number.
DomInputs ==
    {[pan_x |-> <<>>, pan_y |-> <<>>, scale |-> <<>>],
     [pan_x |-> <<0>>, pan_y |-> <<>>, scale |-> <<ONE \div 20>>],
     [pan_x |-> <<490 * ONE>>, pan_y |-> <<490 * ONE>>, scale |-> <<2 * ONE>>],
     [pan_x |-> <<>>, pan_y |-> <<0>>, scale |-> <<50 * ONE>>],
     [pan_x |-> <<ONE>>, pan_y |-> <<ONE>>, scale |-> <<100 * ONE>>]}

initialize_camera_from_dom(cam, dom) ==
    [cam EXCEPT !.pan_x = IF dom.pan_x # <<>> THEN dom.pan_x[1] ELSE @,
                !.pan_y = IF dom.pan_y # <<>> THEN dom.pan_y[1] ELSE @,
                !.scale = IF dom.scale # <<>>
                          THEN (IF dom.scale[1] < ScaleMin THEN ScaleMin ELSE dom.scale[1])
                          ELSE @]

\* Mutant of Clamp: the upper bound is not applied.
ClampBelowOnly(scale) == IF scale < ScaleMin THEN ScaleMin ELSE scale

\* `if cam.scale < 0.1 { 0.1 } else if cam.scale > 50.0 { 50.0 }`.
Clamp(scale) ==
    IF scale < ScaleMin THEN ScaleMin
    ELSE IF scale > ScaleMax THEN ScaleMax ELSE scale

\* Mutant of ScreenToWorld: the pan is added before the division.
ScreenToWorldPanScaled(p, pan, scale) == Div(p + pan, scale)

\* click / scale + pan, of the click closure.
ScreenToWorld(p, pan, scale) == Div(p, scale) + pan

\* (v - pan) * scale, of draw_vehicles.
WorldToScreen(w, pan, scale) == Mul(w - pan, scale)

\* The world point w is drawn inside the canvas.
OnCanvas(w, cam) ==
    /\ 0 <= w[1] - cam.pan_x
    /\ w[1] - cam.pan_x <= Div(CanvasWidth, cam.scale)
    /\ 0 <= w[2] - cam.pan_y
    /\ w[2] - cam.pan_y <= Div(CanvasHeight, cam.scale)

\* dist_sq < selection_threshold * selection_threshold, the squares being
\* taken only where they stay within 32 bits.
WithinThreshold(dx, dy, scale) ==
    LET selection_threshold == Div(ThresholdPx, scale)
    IN  /\ Abs(dx) < selection_threshold
        /\ Abs(dy) < selection_threshold
        /\ Sq(dx) + Sq(dy) < Sq(selection_threshold)

\* Mutant of Closer: a vehicle as near as the closest so far replaces it.
CloserOrEqual(dist_sq, closest_dist) == dist_sq <= closest_dist

Closer(dist_sq, closest_dist) == dist_sq < closest_dist

\* The loop over state.vehicles of the click closure, after n vehicles:
\* closest_index (an Option) and closest_dist.
RECURSIVE ClosestVehicle(_, _, _, _, _)
ClosestVehicle(vs, n, world_x, world_y, scale) ==
    IF n = 0 THEN [closest_index |-> <<>>, closest_dist |-> F32Max]
    ELSE LET sofar == ClosestVehicle(vs, n - 1, world_x, world_y, scale)
             dx == vs[n].x - world_x
             dy == vs[n].y - world_y
         IN  IF WithinThreshold(dx, dy, scale)
                /\ Closer(Sq(dx) + Sq(dy), sofar.closest_dist)
             THEN [closest_index |-> <<n - 1>>, closest_dist |-> Sq(dx) + Sq(dy)]
             ELSE sofar

\* Mutant of Selected: follow mode survives a pick that found no vehicle.
SelectedKeepingFollow(cam, closest_index) ==
    [cam EXCEPT !.selected_vehicle_index = closest_index]

\* The camera after `cam.selected_vehicle_index = closest_index`; the page
\* has its followButton.
Selected(cam, closest_index) ==
    [cam EXCEPT !.selected_vehicle_index = closest_index,
                !.follow_mode = IF closest_index = <<>> THEN FALSE ELSE @]

\* The pick of the click and touchend closures at the screen point p.
Pick(cam, vs, p) ==
    LET world_x == ScreenToWorld(p[1], cam.pan_x, cam.scale)
        world_y == ScreenToWorld(p[2], cam.pan_y, cam.scale)
    IN  Selected(cam, ClosestVehicle(vs, Len(vs), world_x, world_y, cam.scale).closest_index)

\* Mutant of Panned: the delta is not divided by the scale.
PannedUnscaled(cam, dx, dy) ==
    [cam EXCEPT !.pan_x = @ - dx, !.pan_y = @ - dy]

\* `cam.pan_x -= dx / cam.scale; cam.pan_y -= dy / cam.scale`.
Panned(cam, dx, dy) ==
    [cam EXCEPT !.pan_x = @ - Div(dx, cam.scale), !.pan_y = @ - Div(dy, cam.scale)]

\* The offsets from a vehicle at which the user clicks.
ClickOffsets == {<<0, 0>>, <<0, 4990>>, <<0, 5010>>, <<ONE \div 10, 0>>}

\* The screen points of the clicks: those where the world points at the
\* ClickOffsets from a vehicle are drawn, when inside the canvas.
ClickPoints ==
    {<<WorldToScreen(vehicles[k].x + o[1], camera.pan_x, camera.scale),
       WorldToScreen(vehicles[k].y + o[2], camera.pan_y, camera.scale)>> :
        <<k, o>> \in {ko \in (1..Len(vehicles)) \X ClickOffsets :
            OnCanvas(<<vehicles[ko[1]].x + ko[2][1], vehicles[ko[1]].y + ko[2][2]>>, camera)}}

\* client_x, client_y of the mouse events.
MousePoints == {<<100 * ONE, 100 * ONE>>, <<130 * ONE, 90 * ONE>>}

\* The touch lists of the touch events: one finger, or two fingers on a
\* horizontal line 0, 100 or 200 pixels apart.
TouchLists ==
    {<<<<130, 90>>>>}
    \cup {<<<<100, 100>>, <<100 + d, 100>>>> : d \in {0, 100, 200}}

\* The integer square root.
Isqrt(n) == CHOOSE r \in 0..1000 : r * r <= n /\ n < (r + 1) * (r + 1)

\* ((dx * dx + dy * dy) as f64).sqrt() of two touches.
TouchDistance(touches) ==
    LET dx == touches[1][1] - touches[2][1]
        dy == touches[1][2] - touches[2][2]
    IN  Isqrt(dx * dx + dy * dy) * ONE

\* main_js in random-routes mode: the camera is read from the DOM.  The
\* fleet is the one whose vehicles all drew the low end of their slice.
CamInit ==
    /\ app = "sim"
    /\ debug_mode = TRUE
    /\ \E built \in init_vehicles(build_random_routes, <<>>, TRUE) :
          /\ \A k \in 1..Len(built.vehicles) :
                built.vehicles[k].fraction = built.vehicles[k].speed
          /\ routes = built.routes
          /\ vehicles = built.vehicles
    /\ loads = <<>>
    /\ paused = FALSE
    /\ update_interval_ms = 16
    /\ interval_id_cell = <<1>>
    /\ intervals = {1}
    /\ next_handle = 2
    /\ animation_frame_id = <<>>
    /\ ticks = 0
    /\ last_op = [op |-> "main_js"]
    /\ frame = NoFrame
    /\ \E dom \in DomInputs : camera = initialize_camera_from_dom(DefaultCamera, dom)
    /\ drag = DefaultDrag
    /\ prev_touch_distance = 0
    /\ inputs = 0
    /\ calibration = DefaultCalibration
    /\ vehicle_counts = CountVehicles(vehicles)

\* What every input handler leaves alone.
InputFrameWithin(budget) ==
    /\ inputs < budget
    /\ inputs' = inputs + 1
    /\ frame' = NoFrame
    /\ UNCHANGED <<app, routes, vehicles, debug_mode, paused, update_interval_ms,
                   interval_id_cell, intervals, next_handle, loads, animation_frame_id,
                   ticks, calibration, vehicle_counts>>

InputFrame == InputFrameWithin(MaxInputs)

\* mousedown on the canvas.
MouseDownWithin(p, budget) ==
    /\ app = "sim"
    /\ drag' = [is_dragging |-> TRUE, last_x |-> p[1], last_y |-> p[2]]
    /\ last_op' = [op |-> "mousedown", p |-> p]
    /\ UNCHANGED <<camera, prev_touch_distance>>
    /\ InputFrameWithin(budget)

MouseDown(p) == MouseDownWithin(p, MaxInputs)

\* mouseup on the document.
MouseUpWithin(budget) ==
    /\ app = "sim"
    /\ drag' = [drag EXCEPT !.is_dragging = FALSE]
    /\ last_op' = [op |-> "mouseup"]
    /\ UNCHANGED <<camera, prev_touch_distance>>
    /\ InputFrameWithin(budget)

MouseUp == MouseUpWithin(MaxInputs)

\* mousemove on the document.
MouseMoveWithin(p, budget) ==
    /\ app = "sim"
    /\ IF drag.is_dragging
       THEN /\ camera' = Panned(camera, p[1] - drag.last_x, p[2] - drag.last_y)
            /\ drag' = [drag EXCEPT !.last_x = p[1], !.last_y = p[2]]
       ELSE UNCHANGED <<camera, drag>>
    /\ last_op' = [op |-> "mousemove", p |-> p]
    /\ UNCHANGED prev_touch_distance
    /\ InputFrameWithin(budget)

MouseMove(p) == MouseMoveWithin(p, MaxInputs)

\* wheel on the canvas; delta is e.delta_y().
Wheel(delta) ==
    /\ app = "sim"
    /\ camera' = [camera EXCEPT !.scale =
                     Clamp(IF delta < 0 THEN Mul(@, (11 * ONE) \div 10)
                           ELSE Mul(@, (9 * ONE) \div 10))]
    /\ last_op' = [op |-> "wheel", delta |-> delta]
    /\ UNCHANGED <<drag, prev_touch_distance>>
    /\ InputFrame

\* click on the canvas at the screen point p.
ClickWithin(p, budget) ==
    /\ app = "sim"
    /\ camera' = (IF drag.is_dragging THEN camera ELSE Pick(camera, vehicles, p))
    /\ last_op' = [op |-> "click", p |-> p, picked |-> ~drag.is_dragging]
    /\ UNCHANGED <<drag, prev_touch_distance>>
    /\ InputFrameWithin(budget)

Click(p) == ClickWithin(p, MaxInputs)

\* click on the followButton.
FollowButtonWithin(budget) ==
    /\ app = "sim"
    /\ camera' = (IF camera.selected_vehicle_index # <<>>
                  THEN [camera EXCEPT !.follow_mode = ~@] ELSE camera)
    /\ last_op' = [op |-> "follow"]
    /\ UNCHANGED <<drag, prev_touch_distance>>
    /\ InputFrameWithin(budget)

FollowButton == FollowButtonWithin(MaxInputs)

\* touchstart of the touch listeners of camera_control.rs.
TouchStart(touches) ==
    /\ app = "sim"
    /\ prev_touch_distance' =
           (IF Len(touches) = 2 THEN TouchDistance(touches) ELSE prev_touch_distance)
    /\ drag' = (IF Len(touches) = 1
                THEN [is_dragging |-> TRUE, last_x |-> touches[1][1] * ONE,
                      last_y |-> touches[1][2] * ONE]
                ELSE drag)
    /\ last_op' = [op |-> "touchstart", touches |-> touches]
    /\ UNCHANGED camera
    /\ InputFrame

\* touchmove: two fingers zoom by the ratio of their distances, one finger
\* pans as the mouse does.
TouchMove(touches) ==
    /\ app = "sim"
    /\ IF Len(touches) = 2
       THEN LET current_distance == TouchDistance(touches)
                zoom_factor == Div(current_distance, prev_touch_distance)
            IN  /\ camera' = (IF prev_touch_distance > 0
                              THEN [camera EXCEPT !.scale =
                                       Clamp(IF zoom_factor # ONE THEN Mul(@, zoom_factor) ELSE @)]
                              ELSE camera)
                /\ prev_touch_distance' = current_distance
                /\ UNCHANGED drag
       ELSE /\ IF drag.is_dragging
               THEN /\ camera' = Panned(camera, touches[1][1] * ONE - drag.last_x,
                                        touches[1][2] * ONE - drag.last_y)
                    /\ drag' = [drag EXCEPT !.last_x = touches[1][1] * ONE,
                                            !.last_y = touches[1][2] * ONE]
               ELSE UNCHANGED <<camera, drag>>
            /\ UNCHANGED prev_touch_distance
    /\ last_op' = [op |-> "touchmove", touches |-> touches]
    /\ InputFrame

\* touchend of camera_control.rs with `remaining` fingers still down, and
\* touchcancel (remaining = 0).
TouchEnd(remaining) ==
    /\ app = "sim"
    /\ IF remaining = 0
       THEN /\ drag' = [drag EXCEPT !.is_dragging = FALSE]
            /\ prev_touch_distance' = 0
       ELSE UNCHANGED <<drag, prev_touch_distance>>
    /\ last_op' = [op |-> "touchend", remaining |-> remaining]
    /\ UNCHANGED camera
    /\ InputFrame

\* touchend of vehicle_selection.rs: a tap picks at DRAG.last_x, last_y.
TouchEndSelect(remaining) ==
    /\ app = "sim"
    /\ camera' = (IF remaining = 0 /\ ~drag.is_dragging
                  THEN Pick(camera, vehicles, <<drag.last_x, drag.last_y>>)
                  ELSE camera)
    /\ last_op' = [op |-> "touchend_select", remaining |-> remaining]
    /\ UNCHANGED <<drag, prev_touch_distance>>
    /\ InputFrame

CamNext ==
    \/ \E handle \in intervals : SimTick(handle)
    \/ toggle_pause
    \/ \E p \in MousePoints : MouseDown(p)
    \/ MouseUp
    \/ \E p \in MousePoints : MouseMove(p)
    \/ \E delta \in {-100, 100} : Wheel(delta)
    \/ \E p \in ClickPoints : Click(p)
    \/ FollowButton
    \/ \E touches \in TouchLists : TouchStart(touches)
    \/ \E touches \in TouchLists : TouchMove(touches)
    \/ \E remaining \in {0, 1} : TouchEnd(remaining)
    \/ \E remaining \in {0, 1} : TouchEndSelect(remaining)

SpecCamera == CamInit /\ [][CamNext]_vars

\* The drag gesture as the browser delivers it: mousedown, one or more
\* mousemove, mouseup, then a click at the point of release.  Before a
\* gesture the user may pick a vehicle and press the follow button.
MaxGestureInputs == 6   \* events delivered around drag gestures

\* Where the pointer goes down: on a vehicle or on either mouse point.
GestureStartPoints == ClickPoints \cup MousePoints

GestureSelect(p) ==
    /\ last_op.op = "main_js"
    /\ ClickWithin(p, MaxGestureInputs)

GestureFollow ==
    /\ last_op.op = "click"
    /\ FollowButtonWithin(MaxGestureInputs)

GestureDown(p) ==
    /\ last_op.op \in {"main_js", "click", "follow"}
    /\ MouseDownWithin(p, MaxGestureInputs)

GestureMove(p) ==
    /\ last_op.op \in {"mousedown", "mousemove"}
    /\ p # <<drag.last_x, drag.last_y>>
    /\ MouseMoveWithin(p, MaxGestureInputs)

GestureUp ==
    /\ last_op.op = "mousemove"
    /\ MouseUpWithin(MaxGestureInputs)

GestureClick ==
    /\ last_op.op = "mouseup"
    /\ ClickWithin(<<drag.last_x, drag.last_y>>, MaxGestureInputs)

GestureNext ==
    \/ \E p \in ClickPoints : GestureSelect(p)
    \/ GestureFollow
    \/ \E p \in GestureStartPoints : GestureDown(p)
    \/ \E p \in MousePoints : GestureMove(p)
    \/ GestureUp
    \/ GestureClick

SpecGesture == CamInit /\ [][GestureNext]_vars

\* Picking interleaved with data-source switches and the completions of
\* their fetches.
SelectionNext ==
    \/ \E p \in ClickPoints : Click(p)
    \/ \E use_random \in BOOLEAN : set_data_source_mode(use_random)
    \/ \E i \in 1..Len(loads), bus_rows \in 0..MaxTsvRows, train_rows \in 0..MaxTsvRows :
          LoadCompletesOk(i, bus_rows, train_rows)
    \/ \E i \in 1..Len(loads) : LoadCompletesErr(i)

SpecSelection == CamInit /\ [][SelectionNext]_vars

-----------------------------------------------------------------------------
(* sim: the adaptive calibration of the tick interval (ui/control.rs,      *)
(* ui/input.rs).                                                           *)

SampleCount == 10       \* `if self.frame_count < 10`
SlowIntervalMs == 33    \* ~30fps
FastIntervalMs == 16    \* ~60fps

\* 8.0 ms, in thousandths of a millisecond.
ThresholdMs == 8 * ONE

\* The tick wall-times measured, in thousandths of a millisecond.
FrameTimes == {0, ThresholdMs, ThresholdMs + 1}

\* Mutant of ExceedsThreshold: an average of exactly 8 ms counts as slow.
ReachesThreshold(total_frame_time) == total_frame_time >= SampleCount * ThresholdMs

\* `let avg_frame_time = self.total_frame_time / 10.0; avg_frame_time > 8.0`,
\* without the division, which integers would truncate.
ExceedsThreshold(total_frame_time) == total_frame_time > SampleCount * ThresholdMs

\* SimulationControl::auto_adjust_interval on the fields update_interval_ms,
\* auto_adjust, frame_count and total_frame_time of SIMULATION_CONTROL.
auto_adjust_interval(control, frame_time_ms) ==
    IF control.frame_count < SampleCount
    THEN LET total == control.total_frame_time + frame_time_ms
             count == control.frame_count + 1
         IN  IF count = SampleCount
             THEN [update_interval_ms |-> IF ExceedsThreshold(total)
                                          THEN SlowIntervalMs ELSE FastIntervalMs,
                   auto_adjust |-> FALSE,
                   frame_count |-> count,
                   total_frame_time |-> total]
             ELSE [control EXCEPT !.frame_count = count, !.total_frame_time = total]
    ELSE control

\* The calibration fields of SIMULATION_CONTROL as one record.
Control ==
    [update_interval_ms |-> update_interval_ms,
     auto_adjust |-> calibration.auto_adjust,
     frame_count |-> calibration.frame_count,
     total_frame_time |-> calibration.total_frame_time]

CalInit == SimInit /\ ~debug_mode

\* A call of auto_adjust_interval with the wall-time of one tick.
Sample(frame_time_ms) ==
    /\ app = "sim"
    /\ LET after == auto_adjust_interval(Control, frame_time_ms)
       IN  /\ update_interval_ms' = after.update_interval_ms
           /\ calibration' = [auto_adjust |-> after.auto_adjust,
                              frame_count |-> after.frame_count,
                              total_frame_time |-> after.total_frame_time]
    /\ last_op' = [op |-> "auto_adjust_interval", frame_time_ms |-> frame_time_ms]
    /\ frame' = NoFrame
    /\ UNCHANGED <<app, camera, drag, prev_touch_distance, inputs, vehicle_counts,
                   routes, vehicles, debug_mode, paused, interval_id_cell, intervals,
                   next_handle, loads, animation_frame_id, ticks>>

\* change on the autoFps checkbox.
AutoFpsChanged(checked) ==
    /\ app = "sim"
    /\ inputs < MaxInputs
    /\ inputs' = inputs + 1
    /\ calibration' = (IF checked
                       THEN [auto_adjust |-> checked, frame_count |-> 0,
                             total_frame_time |-> 0]
                       ELSE [calibration EXCEPT !.auto_adjust = checked])
    /\ last_op' = [op |-> "autoFps", checked |-> checked]
    /\ frame' = NoFrame
    /\ UNCHANGED <<app, camera, drag, prev_touch_distance, vehicle_counts,
                   routes, vehicles, debug_mode, paused, update_interval_ms,
                   interval_id_cell, intervals, next_handle, loads,
                   animation_frame_id, ticks>>

CalNext ==
    \/ \E frame_time_ms \in FrameTimes : Sample(frame_time_ms)
    \/ \E checked \in BOOLEAN : AutoFpsChanged(checked)
    \/ \E ms \in {FastIntervalMs, SlowIntervalMs} : change_animation_interval(ms)

SpecCalibration == CalInit /\ [][CalNext]_vars

----------------------------------------------------------------------------
(* map: routes and vehicles of the map simulation                          *)
(* (map/src/app/simulation/model.rs).  Longitudes and latitudes are        *)
(* fixed-point numbers; a route's stations are modelled as an evenly       *)
(* divided segment with the station count of the source.                   *)

MaxFeed == 2            \* predictions in one line's arrivals response

\* The lines build_real_time_vehicles fetches: 1 of its 14 primary lines.
FetchedLines == <<"central">>

\* The lines create_simple_routes_for_real_time gives a route: 2 of its 14
\* primary lines.
PrimaryLines == <<"victoria", "central">>

get_vehicle_type_for_line(line_id) ==
    IF line_id \in {"victoria", "central", "northern", "dlr", "tram"} THEN "Train" ELSE "Bus"

MapRoute(id, line_id, type, stations) ==
    [id |-> id, line_id |-> line_id, vehicle_type |-> type, stations |-> stations]

MapVehicle(id, type, route_index, line_id, position, speed, direction, last, next, lng, lat) ==
    [id |-> id, vehicle_type |-> type, route_index |-> route_index, line_id |-> line_id,
     position |-> position, speed |-> speed, direction |-> direction,
     last_station |-> last, next_station |-> next, lng |-> lng, lat |-> lat,
     spawned_on |-> <<>>]

SamplePath(k, n) ==
    GenerateRoutePath(<<0, 50 * ONE * k>>, <<ONE * (n - 1), 50 * ONE * k + ONE * (n - 1)>>, n - 2)

build_sample_routes ==
    << MapRoute(0, "central", "Train", SamplePath(0, 24)),
       MapRoute(1, "northern", "Train", SamplePath(1, 21)),
       MapRoute(2, "88", "Bus", SamplePath(2, 20)) >>

\* A TflDataRepository is modelled by its route_geometries in iteration
\* order: per line its transport mode and the number of coordinates of each
\* of its polylines.
TflLine(line_id, mode, geometries) ==
    [line_id |-> line_id, mode |-> mode, geometries |-> geometries]

TflRepositories ==
    { << TflLine("central", "tube", <<1>>) >>,
      << TflLine("88", "bus", <<>>), TflLine("northern", "tube", <<3, 1, 2>>) >> }

\* The usable polylines of a line, in order, as <<segment_idx, length>>.
UsableSegments(line) ==
    SelectSeq([k \in 1..Len(line.geometries) |-> <<k - 1, line.geometries[k]>>],
              LAMBDA seg : seg[2] >= 2)

RECURSIVE RoutesOfLines(_, _)
RoutesOfLines(lines, route_id) ==
    IF lines = <<>> THEN <<>>
    ELSE LET line == Head(lines)
             segs == UsableSegments(line)
             type == IF line.mode = "bus" THEN "Bus" ELSE "Train"
         IN  [k \in 1..Len(segs) |->
                 MapRoute(route_id + k - 1, line.line_id, type,
                          SamplePath(10 + route_id + k, segs[k][2]))]
             \o RoutesOfLines(Tail(lines), route_id + Len(segs))

build_routes_from_tfl_data(tfl_data) ==
    IF RoutesOfLines(tfl_data, 0) = <<>> THEN build_sample_routes
    ELSE RoutesOfLines(tfl_data, 0)

\* The k-th vehicle (k = 0, 1, ..) of initialize_vehicles: 2 per route, the
\* even ones forward from the first station, the odd ones backward from the
\* last; the position is a random draw, the speed is in [0.005, 0.055).
InitialVehicle(k, rs, position_draw, speed_draw) ==
    LET route == rs[(k \div 2) + 1]
        n == Len(route.stations)
        fwd == (k % 2 = 0)
        last_station == IF fwd THEN 0 ELSE AsUsize(n - 1)
        start == Station(route, last_station)
    IN  [MapVehicle(k, route.vehicle_type, route.id, route.line_id, position_draw,
                    (5 * ONE) \div 1000 + Mul(speed_draw, (50 * ONE) \div 1000),
                    IF fwd THEN 1 ELSE -1,
                    last_station, IF fwd THEN 1 ELSE AsUsize(n - 2),
                    start[1], start[2])
         EXCEPT !.spawned_on = route]

\* The draws of Math.random() taken for the vehicles of a map fleet.
MapDraws == {ONE \div 2}

initialize_vehicles(rs) ==
    {[k \in 1..(2 * Len(rs)) |-> InitialVehicle(k - 1, rs, d[k][1], d[k][2])] :
        d \in [1..(2 * Len(rs)) -> MapDraws \X SpeedDraws]}

(* Live arrivals *)

Prediction(vehicle_id, time_to_station, line_id, current_location) ==
    [vehicle_id |-> vehicle_id, time_to_station |-> time_to_station,
     line_id |-> line_id, current_location |-> current_location]

\* What fetch_arrivals_for_line(line) may return: an Err (ok = FALSE), or a list of at most
\* MaxFeed predictions.  An Option field is <<>> (None) or <<value>>.
PredictionsFor(line) ==
    { Prediction(<<"v1">>, <<300>>, <<line>>, <<"At Platform">>),
      Prediction(<<"v1">>, <<0>>, <<line>>, <<"At Platform">>),
      Prediction(<<"v2">>, <<900>>, <<"88">>, <<"Approaching">>),
      Prediction(<<"v2">>, <<120>>, <<>>, <<"Approaching">>),
      Prediction(<<>>, <<60>>, <<line>>, <<>>) }

RECURSIVE SeqsUpTo(_, _)
SeqsUpTo(S, n) ==
    IF n = 0 THEN {<<>>}
    ELSE SeqsUpTo(S, n - 1) \cup
         {Append(q, e) : q \in {p \in SeqsUpTo(S, n - 1) : Len(p) = n - 1}, e \in S}

FeedsFor(line) ==
    {[ok |-> FALSE, predictions |-> <<>>]} \cup
    {[ok |-> TRUE, predictions |-> q] : q \in SeqsUpTo(PredictionsFor(line), MaxFeed)}

\* Mutant of GroupByVehicle: a later prediction replaces the entry when its
\* time_to_station is smaller or equal.
RECURSIVE GroupByVehicleLastSeen(_, _)
GroupByVehicleLastSeen(predictions, vehicle_map) ==
    IF predictions = <<>> THEN vehicle_map
    ELSE LET p == Head(predictions)
             vehicle_id == p.vehicle_id[1]
         IN  IF p.vehicle_id = <<>> \/ p.time_to_station = <<>>
             THEN GroupByVehicleLastSeen(Tail(predictions), vehicle_map)
             ELSE IF vehicle_id \notin DOMAIN vehicle_map
                     \/ p.time_to_station[1] <= vehicle_map[vehicle_id].time_to_station[1]
                  THEN GroupByVehicleLastSeen(Tail(predictions),
                           [k \in DOMAIN vehicle_map \cup {vehicle_id} |->
                               IF k = vehicle_id THEN p ELSE vehicle_map[k]])
                  ELSE GroupByVehicleLastSeen(Tail(predictions), vehicle_map)

\* The vehicle_map after the predictions were inserted in order: a
\* prediction replaces the entry of its vehicle id when that id is new or
\* its time_to_station is smaller.  A function from vehicle ids.
RECURSIVE GroupByVehicle(_, _)
GroupByVehicle(predictions, vehicle_map) ==
    IF predictions = <<>> THEN vehicle_map
    ELSE LET p == Head(predictions)
             vehicle_id == p.vehicle_id[1]
         IN  IF p.vehicle_id = <<>> \/ p.time_to_station = <<>>
             THEN GroupByVehicle(Tail(predictions), vehicle_map)
             ELSE IF vehicle_id \notin DOMAIN vehicle_map
                     \/ p.time_to_station[1] < vehicle_map[vehicle_id].time_to_station[1]
                  THEN GroupByVehicle(Tail(predictions),
                           [k \in DOMAIN vehicle_map \cup {vehicle_id} |->
                               IF k = vehicle_id THEN p ELSE vehicle_map[k]])
                  ELSE GroupByVehicle(Tail(predictions), vehicle_map)

EmptyMap == [k \in {} |-> <<>>]

\* The vehicle of one surviving prediction; the position is
\* (600 - min(time_to_station, 600)) / 600.
LiveVehicle(id, prediction) ==
    LET time_to_station == prediction.time_to_station[1]
        max_time == 600
        position == ((max_time - Min(time_to_station, max_time)) * ONE) \div max_time
        line_id == prediction.line_id[1]
    IN  MapVehicle(id, get_vehicle_type_for_line(line_id), 0, line_id, position,
                   (10 * ONE) \div 1000, 1, 0, 1, 0, 0)

KeepsPrediction(p) ==
    p.line_id # <<>> /\ p.time_to_station # <<>> /\ p.current_location # <<>>

\* The orders in which a HashMap may iterate over the keys S.
RECURSIVE Orders(_)
Orders(S) ==
    IF S = {} THEN {<<>>}
    ELSE UNION {{<<k>> \o rest : rest \in Orders(S \ {k})} : k \in S}

\* The vehicles pushed for one line, given the iteration order of its map.
RECURSIVE LineVehicles(_, _, _)
LineVehicles(order, vehicle_map, id_counter) ==
    IF order = <<>> THEN <<>>
    ELSE IF KeepsPrediction(vehicle_map[Head(order)])
         THEN <<LiveVehicle(id_counter, vehicle_map[Head(order)])>>
              \o LineVehicles(Tail(order), vehicle_map, id_counter + 1)
         ELSE LineVehicles(Tail(order), vehicle_map, id_counter)

\* The vehicle lists build_real_time_vehicles may have after one line's
\* fetch returned `feed`, one per iteration order of the line's map.
CollectedVehicles(collected, feed) ==
    IF ~feed.ok THEN {collected}
    ELSE LET vehicle_map == GroupByVehicle(feed.predictions, EmptyMap)
         IN  {collected \o LineVehicles(o, vehicle_map, Len(collected)) :
                 o \in Orders(DOMAIN vehicle_map)}

\* Mutant of LiveFailed: an empty vehicle list is not an error.
LiveNeverFailed(collected) == FALSE

\* build_real_time_vehicles returns Err when no vehicle was built.
LiveFailed(collected) == collected = <<>>

create_simple_routes_for_real_time ==
    [k \in 1..Len(PrimaryLines) |->
        MapRoute(k - 1, PrimaryLines[k], get_vehicle_type_for_line(PrimaryLines[k]),
                 << <<0, 0>>, <<10 * ONE, 10 * ONE>> >>)]

\* use_real_time_data: the first route of the vehicle's line, route 0 when
\* no route has that line.
RECURSIVE MatchingRoute(_, _, _)
MatchingRoute(line_id, rs, k) ==
    IF k > Len(rs) THEN 0
    ELSE IF rs[k].line_id = line_id THEN rs[k].id
    ELSE MatchingRoute(line_id, rs, k + 1)

\* spawned_on records the route the vehicle is given here.
AssignRoutes(vs, rs) ==
    [k \in 1..Len(vs) |->
        LET route_index == MatchingRoute(vs[k].line_id, rs, 1)
        IN  [vs[k] EXCEPT !.route_index = route_index,
                          !.spawned_on = rs[route_index + 1]]]

----------------------------------------------------------------------------
(* map: resolution of the data source and the animation loop               *)
(* (map/src/app/simulation/mod.rs, state.rs)                               *)

\* The future spawned by use_real_time_data: the next primary line to
\* fetch and the vehicles collected so far.  tfl_data is an Option.
ArrivalsLoad(tfl_data) ==
    [kind |-> "arrivals", tfl_data |-> tfl_data, line |-> 1, vehicles |-> <<>>]

TflOptions == {<<>>} \cup {<<repo>> : repo \in TflRepositories}

MapInit ==
    /\ app = "map"
    /\ routes = <<>>
    /\ vehicles = <<>>
    /\ debug_mode = FALSE
    /\ paused = FALSE
    /\ update_interval_ms = 1000 \div 30
    /\ interval_id_cell = <<>>
    /\ intervals = {}
    /\ next_handle = 1
    /\ loads = <<>>
    /\ animation_frame_id = <<>>
    /\ ticks = 0
    /\ last_op = [op |-> "none"]
    /\ frame = NoFrame
    /\ camera = DefaultCamera
    /\ drag = DefaultDrag
    /\ prev_touch_distance = 0
    /\ inputs = 0
    /\ calibration = DefaultCalibration
    /\ vehicle_counts = DefaultCounts

initialize_simulation(tfl_data) ==
    /\ app = "map"
    /\ Len(loads) < MaxLoads
    /\ next_handle + Len(loads) <= MaxHandles
    /\ loads' = Append(loads, ArrivalsLoad(tfl_data))
    /\ frame' = NoFrame
    /\ UNCHANGED <<app, camera, drag, prev_touch_distance, inputs, calibration, vehicle_counts,
                   routes, vehicles, debug_mode, paused, update_interval_ms,
                   interval_id_cell, intervals, next_handle, animation_frame_id, ticks,
                   last_op>>

\* reset_simulation: the interval is cleared when a frame id is stored, then
\* the simulation is initialised again.
reset_simulation(tfl_data) ==
    /\ app = "map"
    /\ Len(loads) < MaxLoads
    /\ next_handle + Len(loads) <= MaxHandles
    /\ IF animation_frame_id # <<>> /\ interval_id_cell # <<>>
       THEN /\ intervals' = intervals \ {interval_id_cell[1]}
            /\ interval_id_cell' = <<>>
       ELSE UNCHANGED <<intervals, interval_id_cell>>
    /\ loads' = Append(loads, ArrivalsLoad(tfl_data))
    /\ frame' = NoFrame
    /\ UNCHANGED <<app, camera, drag, prev_touch_distance, inputs, calibration, vehicle_counts,
                   routes, vehicles, debug_mode, paused, update_interval_ms,
                   next_handle, animation_frame_id, ticks, last_op>>

\* Mutant of InstallSimulation: the interval in window.__rustAnimIntervalId
\* is not cleared before the new one is set.
InstallSimulationKeepingInterval(rs, vs) ==
    /\ routes' = rs
    /\ vehicles' = vs
    /\ paused' = FALSE
    /\ intervals' = intervals \cup {next_handle}
    /\ interval_id_cell' = <<next_handle>>
    /\ animation_frame_id' = <<next_handle>>
    /\ next_handle' = next_handle + 1
    /\ ticks' = 0

\* initialize_state, register_vehicle_layers and start_animation_loop with
\* the routes rs and the vehicles vs.
InstallSimulation(rs, vs) ==
    /\ routes' = rs
    /\ vehicles' = vs
    /\ paused' = FALSE
    /\ intervals' = (IF interval_id_cell # <<>> THEN intervals \ {interval_id_cell[1]}
                     ELSE intervals) \cup {next_handle}
    /\ interval_id_cell' = <<next_handle>>
    /\ animation_frame_id' = <<next_handle>>
    /\ next_handle' = next_handle + 1
    /\ ticks' = 0

NumUsableRoutes(tfl_data) ==
    IF tfl_data = <<>> THEN 0 ELSE Len(RoutesOfLines(tfl_data[1], 0))

use_fallback_data(tfl_data, live) ==
    LET rs == IF tfl_data # <<>> THEN build_routes_from_tfl_data(tfl_data[1])
              ELSE build_sample_routes
    IN  /\ \E vs \in initialize_vehicles(rs) : InstallSimulation(rs, vs)
        /\ last_op' = [op |-> "resolved", live |-> live,
                       topology |-> (tfl_data # <<>>),
                       usable |-> NumUsableRoutes(tfl_data)]

\* The arrivals of the next primary line of the resolution `i` are fetched;
\* after the last line the resolution commits its result.
ArrivalsFetched(i, feed) ==
    /\ app = "map"
    /\ i \in 1..Len(loads)
    /\ loads[i].kind = "arrivals"
    /\ feed \in FeedsFor(FetchedLines[loads[i].line])
    /\ \E collected \in CollectedVehicles(loads[i].vehicles, feed) :
          IF loads[i].line < Len(FetchedLines)
          THEN /\ loads' = [loads EXCEPT ![i] = [@ EXCEPT !.line = @ + 1,
                                                          !.vehicles = collected]]
               /\ UNCHANGED <<routes, vehicles, paused, interval_id_cell, intervals,
                              next_handle, animation_frame_id, ticks, last_op>>
          ELSE /\ loads' = RemoveAt(loads, i)
               /\ IF ~LiveFailed(collected)
                  THEN /\ InstallSimulation(
                              create_simple_routes_for_real_time,
                              AssignRoutes(collected, create_simple_routes_for_real_time))
                       /\ last_op' = [op |-> "resolved", live |-> Len(collected),
                                      topology |-> (loads[i].tfl_data # <<>>),
                                      usable |-> NumUsableRoutes(loads[i].tfl_data)]
                  ELSE use_fallback_data(loads[i].tfl_data, Len(collected))
    /\ frame' = NoFrame
    /\ UNCHANGED <<app, camera, drag, prev_touch_distance, inputs, calibration, vehicle_counts,
                   debug_mode, update_interval_ms>>

\* Mutant of MapArrive: after a reversal the next station is not
\* recalculated from the new direction, the vehicle stays at the end.
MapArriveStayingAtEnd(v, route) ==
    LET next_station == v.next_station + v.direction
        reverse == next_station < 0 \/ next_station >= Len(route.stations)
    IN  [v EXCEPT !.position = @ - ONE,
                  !.last_station = v.next_station,
                  !.direction = IF reverse THEN -v.direction ELSE v.direction,
                  !.next_station = IF reverse THEN v.next_station
                                   ELSE AsUsize(next_station)]

\* One pass of the arrival loop of update_vehicle_positions.
MapArrive(v, route) ==
    LET next_station == v.next_station + v.direction
        reverse == next_station < 0 \/ next_station >= Len(route.stations)
    IN  [v EXCEPT !.position = @ - ONE,
                  !.last_station = v.next_station,
                  !.direction = IF reverse THEN -v.direction ELSE v.direction,
                  !.next_station = IF reverse THEN AsUsize(v.next_station - v.direction)
                                   ELSE AsUsize(next_station)]

RECURSIVE MapNormalise(_, _)
MapNormalise(v, route) ==
    IF v.position >= ONE THEN MapNormalise(MapArrive(v, route), route) ELSE v

update_vehicle_positions(vs, rs) ==
    [k \in 1..Len(vs) |->
        LET route == rs[vs[k].route_index + 1]
            v == MapNormalise([vs[k] EXCEPT !.position = @ + vs[k].speed], route)
            last == Station(route, v.last_station)
            next == Station(route, v.next_station)
        IN  [v EXCEPT !.lng = last[1] + Mul(next[1] - last[1], v.position),
                      !.lat = last[2] + Mul(next[2] - last[2], v.position)]]

\* The interval `handle` fires and calls window.rust_animation_tick.
MapTick(handle) ==
    /\ app = "map"
    /\ handle \in intervals
    /\ IF Advances(paused)
       THEN /\ ticks < MaxTicks
            /\ vehicles' = update_vehicle_positions(vehicles, routes)
            /\ ticks' = ticks + 1
       ELSE UNCHANGED <<vehicles, ticks>>
    /\ frame' = (IF Advances(paused) THEN Drawn(routes, vehicles') ELSE NotDrawn)
    /\ UNCHANGED <<app, camera, drag, prev_touch_distance, inputs, calibration, vehicle_counts,
                   routes, debug_mode, paused, update_interval_ms,
                   interval_id_cell, intervals, next_handle, loads, animation_frame_id,
                   last_op>>

\* toggle_simulation calls toggle_pause of state.rs, which returns the new
\* value of the flag.
toggle_simulation ==
    /\ app = "map"
    /\ paused' = ~paused
    /\ last_op' = [op |-> "toggle_pause", returned |-> ~paused]
    /\ frame' = NoFrame
    /\ UNCHANGED <<app, camera, drag, prev_touch_distance, inputs, calibration, vehicle_counts,
                   routes, vehicles, debug_mode, update_interval_ms,
                   interval_id_cell, intervals, next_handle, loads, animation_frame_id, ticks>>

MapNext ==
    \/ \E tfl_data \in TflOptions : initialize_simulation(tfl_data)
    \/ \E tfl_data \in TflOptions : reset_simulation(tfl_data)
    \/ \E i \in 1..Len(loads) :
          /\ app = "map"
          /\ \E feed \in FeedsFor(FetchedLines[loads[i].line]) : ArrivalsFetched(i, feed)
    \/ \E handle \in intervals : MapTick(handle)
    \/ toggle_simulation

SpecMap == MapInit /\ [][MapNext]_vars

----------------------------------------------------------------------------
(* Kinematics specification: one vehicle on one route, inputs drawn from   *)
(* bounded sets, update_position applied tick after tick.                  *)

KinRoute(n) == Route(GenerateRoutePath(<<0, 0>>, <<10 * ONE * (n - 1), 0>>, n - 2))

KinFractions == {0, ONE \div 5, ONE \div 2, (9 * ONE) \div 10, ONE - 1}

KinSpeeds == {0, 5} \cup {k * ONE + d : k \in 0..MaxLaps, d \in {0, (3 * ONE) \div 10}}

KinInit ==
    /\ app = "kin"
    /\ \E n \in 2..MaxStations, d \in {1, -1}, f \in KinFractions, s \in KinSpeeds :
         \E last \in 0..(n - 1) :
            /\ last + d \in 0..(n - 1)
            /\ routes = <<KinRoute(n)>>
            /\ vehicles = <<Interpolate(
                   Vehicle("Bus", 0, d, last, last + d, f, s, KinRoute(n)), KinRoute(n))>>
    /\ debug_mode = FALSE
    /\ paused = FALSE
    /\ update_interval_ms = 16
    /\ interval_id_cell = <<>>
    /\ intervals = {}
    /\ next_handle = 1
    /\ loads = <<>>
    /\ animation_frame_id = <<>>
    /\ ticks = 0
    /\ last_op = [op |-> "init"]
    /\ frame = NoFrame
    /\ camera = DefaultCamera
    /\ drag = DefaultDrag
    /\ prev_touch_distance = 0
    /\ inputs = 0
    /\ calibration = DefaultCalibration
    /\ vehicle_counts = DefaultCounts

KinTick ==
    /\ app = "kin"
    /\ vehicles' = [i \in 1..Len(vehicles) |->
                       update_position(vehicles[i], routes[vehicles[i].route_index + 1])]
    /\ last_op' = [op |-> "update_position",
                   beat |-> IF last_op.op = "init" THEN 0 ELSE 1 - last_op.beat]
    /\ frame' = NoFrame
    /\ UNCHANGED <<app, camera, drag, prev_touch_distance, inputs, calibration, vehicle_counts,
                   routes, debug_mode, paused, update_interval_ms,
                   interval_id_cell, intervals, next_handle, loads, animation_frame_id, ticks>>

KinNext == KinTick

SpecKin == KinInit /\ [][KinNext]_vars

\* A moving vehicle under a timer that keeps firing: the interval calls the
\* tick again and again, and nothing in the kinematics specification pauses.
\* The beat of last_op tells a tick that brings the vehicle back to where it
\* was from no tick at all.
ShuttleInit == KinInit /\ vehicles[1].speed > 0

SpecShuttle == ShuttleInit /\ [][KinNext]_vars /\ WF_vars(KinTick)

----------------------------------------------------------------------------
(* Fleet-building specification: init_vehicles of the canvas simulator and *)
(* initialize_vehicles of the map are applied to catalogs drawn from a     *)
(* bounded set that holds routes of 0 and 1 stations too.                  *)

MaxCatalog == 2         \* routes of a drawn catalog

MaxShortStations == 3   \* stations of a route of a drawn catalog

MaxPerRoute == 4        \* vehicles given to one route

StationsOf(n) == [k \in 1..n |-> <<10 * ONE * k, 0>>]

\* The catalogs of at most n routes, given the set of routes to pick from.
RECURSIVE CatalogsUpTo(_, _)
CatalogsUpTo(S, n) ==
    IF n = 0 THEN {<<>>}
    ELSE CatalogsUpTo(S, n - 1) \cup
         {Append(c, e) : c \in {p \in CatalogsUpTo(S, n - 1) : Len(p) = n - 1}, e \in S}

SimCatalogs ==
    CatalogsUpTo({Route(StationsOf(n)) : n \in 0..MaxShortStations}, MaxCatalog) \ {<<>>}

\* The ids of the routes of a map catalog are their indices.
MapCatalogs ==
    {[k \in 1..Len(c) |-> MapRoute(k - 1, "central", "Train", c[k].stations)] :
        c \in SimCatalogs}

FleetInit ==
    /\ app \in {"sim", "map"}
    /\ routes \in (IF app = "sim" THEN SimCatalogs ELSE MapCatalogs)
    /\ vehicles = <<>>
    /\ debug_mode = FALSE
    /\ paused = FALSE
    /\ update_interval_ms = 16
    /\ interval_id_cell = <<>>
    /\ intervals = {}
    /\ next_handle = 1
    /\ loads = <<>>
    /\ animation_frame_id = <<>>
    /\ ticks = 0
    /\ last_op = [op |-> "catalog"]
    /\ frame = NoFrame
    /\ camera = DefaultCamera
    /\ drag = DefaultDrag
    /\ prev_touch_distance = 0
    /\ inputs = 0
    /\ calibration = DefaultCalibration
    /\ vehicle_counts = DefaultCounts

\* SharedState::init_vehicles on the drawn catalog.
FleetOfSim ==
    /\ app = "sim"
    /\ last_op.op = "catalog"
    /\ \E built \in init_vehicles(routes, vehicles, debug_mode) :
          /\ routes' = built.routes
          /\ vehicles' = built.vehicles
    /\ last_op' = [op |-> "init_vehicles"]
    /\ frame' = NoFrame
    /\ UNCHANGED <<app, camera, drag, prev_touch_distance, inputs, calibration, vehicle_counts,
                   debug_mode, paused, update_interval_ms, interval_id_cell,
                   intervals, next_handle, loads, animation_frame_id, ticks>>

\* initialize_vehicles on the drawn catalog.  `route.stations[last_station]`
\* panics on a route without stations; `route.stations.len() - 2` of a
\* route of one station panics in a build with overflow checks and wraps
\* in a build without them.
FleetOfMap ==
    /\ app = "map"
    /\ last_op.op = "catalog"
    /\ \/ /\ \E k \in 1..Len(routes) : Len(routes[k].stations) < 2
          /\ last_op' = [op |-> "panic"]
          /\ UNCHANGED vehicles
       \/ /\ \A k \in 1..Len(routes) : Len(routes[k].stations) >= 1
          /\ vehicles' \in initialize_vehicles(routes)
          /\ last_op' = [op |-> "initialize_vehicles"]
    /\ frame' = NoFrame
    /\ UNCHANGED <<app, camera, drag, prev_touch_distance, inputs, calibration, vehicle_counts,
                   routes, debug_mode, paused, update_interval_ms,
                   interval_id_cell, intervals, next_handle, loads, animation_frame_id, ticks>>

\* The two direction loops of init_vehicles on the first route of the
\* drawn catalog, for a per-route count of per_route vehicles.  last_op
\* keeps the vehicle literals as created, before `v.update_position(route)`.
SpawnOnRoute(per_route) ==
    /\ app = "sim"
    /\ last_op.op = "catalog"
    /\ LET slots == RouteSlots("Bus", 0, per_route, routes[1])
       IN  \E d \in [1..Len(slots) -> RngDraws \X SpeedDraws] :
              /\ vehicles' = [k \in 1..Len(slots) |-> Spawn(slots[k], routes, d[k][1], d[k][2])]
              /\ last_op' = [op |-> "route_spawned", per_route |-> per_route,
                             created |-> [k \in 1..Len(slots) |->
                                 NewVehicle(slots[k], routes, d[k][1], d[k][2])]]
    /\ frame' = NoFrame
    /\ UNCHANGED <<app, camera, drag, prev_touch_distance, inputs, calibration, vehicle_counts,
                   routes, debug_mode, paused, update_interval_ms,
                   interval_id_cell, intervals, next_handle, loads, animation_frame_id, ticks>>

FleetNext ==
    \/ FleetOfSim
    \/ FleetOfMap
    \/ \E per_route \in 0..MaxPerRoute : SpawnOnRoute(per_route)

SpecFleet == FleetInit /\ [][FleetNext]_vars

----------------------------------------------------------------------------
(* Live-arrivals specification: the body of the loop of                    *)
(* build_real_time_vehicles is applied to one line's predictions, drawn    *)
(* from a bounded set of complete and partial predictions.                 *)

MaxLiveFeed == 3        \* predictions of the drawn response

\* Complete predictions of two vehicles, told apart by current_location,
\* and predictions lacking one field each.
LivePredictions ==
    {Prediction(<<id>>, <<t>>, <<"central">>, <<loc>>) :
        id \in {"v1", "v2"}, t \in {0, 300, 900}, loc \in {"At Platform", "Approaching"}}
    \cup {Prediction(<<>>, <<0>>, <<"central">>, <<"At Platform">>),
          Prediction(<<"v1">>, <<>>, <<"central">>, <<"At Platform">>),
          Prediction(<<"v1">>, <<0>>, <<>>, <<"At Platform">>),
          Prediction(<<"v1">>, <<300>>, <<"central">>, <<>>)}

LiveInit ==
    /\ app = "live"
    /\ \E q \in SeqsUpTo(LivePredictions, MaxLiveFeed) :
          loads = <<[kind |-> "feed", ok |-> TRUE, predictions |-> q]>>
    /\ routes = <<>>
    /\ vehicles = <<>>
    /\ debug_mode = FALSE
    /\ paused = FALSE
    /\ update_interval_ms = 1000 \div 30
    /\ interval_id_cell = <<>>
    /\ intervals = {}
    /\ next_handle = 1
    /\ animation_frame_id = <<>>
    /\ ticks = 0
    /\ last_op = [op |-> "fetched"]
    /\ frame = NoFrame
    /\ camera = DefaultCamera
    /\ drag = DefaultDrag
    /\ prev_touch_distance = 0
    /\ inputs = 0
    /\ calibration = DefaultCalibration
    /\ vehicle_counts = DefaultCounts

\* One pass of `for line_id in primary_lines`: the predictions are grouped
\* by vehicle id and the surviving ones become vehicles.  last_op keeps the
\* response and the vehicle_map built from it.
LineProcessed ==
    /\ app = "live"
    /\ loads # <<>>
    /\ vehicles' \in CollectedVehicles(vehicles, loads[1])
    /\ loads' = Tail(loads)
    /\ last_op' = [op |-> "line_processed", predictions |-> loads[1].predictions,
                   vehicle_map |-> GroupByVehicle(loads[1].predictions, EmptyMap)]
    /\ frame' = NoFrame
    /\ UNCHANGED <<app, camera, drag, prev_touch_distance, inputs, calibration, vehicle_counts,
                   routes, debug_mode, paused, update_interval_ms,
                   interval_id_cell, intervals, next_handle, animation_frame_id, ticks>>

LiveNext == LineProcessed

SpecLive == LiveInit /\ [][LiveNext]_vars

----------------------------------------------------------------------------
(* The three programs side by side: `app` tells which one a behaviour is of *)

RoundelInit == KinInit \/ SimInit \/ MapInit

RoundelNext == KinNext \/ SimNext \/ MapNext

SpecRoundel == RoundelInit /\ [][RoundelNext]_vars

----------------------------------------------------------------------------
(* Properties of the kinematic update *)

RouteOf(v) == routes[v.route_index + 1]

NumStations(v) == Len(RouteOf(v).stations)

Updated == last_op'.op = "update_position"

\* C3.  Bounce: an update with exactly one arrival, at waypoint w, leaves
\* last = w; if w is the first or the last waypoint the direction is
\* reversed and next is the adjacent inner waypoint (no wrap to the other
\* end), otherwise the direction is kept.  Scenario: on [(0,0),(10,0)] the
\* vehicle last=0, next=1, direction=+1, fraction=0.9, speed=0.3 ends with
\* fraction=0.2, last=1, next=0, direction=-1 at (8.0, 0.0).
BounceAtRouteEnds ==
    [][\A i \in 1..Len(vehicles) :
        LET v == vehicles[i]
            u == vehicles'[i]
            n == NumStations(v)
            w == v.next_station
        IN  /\ (Updated /\ v.fraction + v.speed >= ONE /\ v.fraction + v.speed < 2 * ONE)
                => /\ u.last_station = w
                   /\ IF w = 0 \/ w = n - 1
                      THEN /\ u.direction = -v.direction
                           /\ u.next_station = (IF w = 0 THEN 1 ELSE n - 2)
                      ELSE /\ u.direction = v.direction
                           /\ u.next_station = w + v.direction
            /\ (/\ Updated
                /\ RouteOf(v).stations = <<(<<0, 0>>), (<<10 * ONE, 0>>)>>
                /\ v.last_station = 0 /\ v.next_station = 1 /\ v.direction = 1
                /\ v.fraction = (9 * ONE) \div 10 /\ v.speed = (3 * ONE) \div 10)
                => /\ u.fraction = (2 * ONE) \div 10
                   /\ u.last_station = 1 /\ u.next_station = 0 /\ u.direction = -1
                   /\ u.x = 8 * ONE /\ u.y = 0
    ]_vars

BounceScenarioDone ==
    /\ app = "kin"
    /\ last_op.op = "update_position"
    /\ Len(routes[1].stations) = 2
    /\ vehicles[1].speed = (3 * ONE) \div 10
    /\ vehicles[1].fraction = (2 * ONE) \div 10
    /\ vehicles[1].last_station = 1 /\ vehicles[1].next_station = 0
    /\ vehicles[1].direction = -1
    /\ vehicles[1].x = 8 * ONE

\* Position of a vehicle on the unfolded there-and-back path of its route:
\* 0 .. n-2 going forward from station 0, n-1 .. 2(n-1)-1 coming back.
Phase(v, n) == IF v.direction = 1 THEN v.last_station ELSE 2 * (n - 1) - v.last_station

\* C4.  An update with fraction + speed = m + r (0 <= r < 1) makes exactly m
\* arrivals, bouncing at the route ends, and leaves fraction = r: the
\* vehicle is m waypoints further along the there-and-back path, whatever
\* the speed (nothing is truncated when speed > 1).
UpdateResolvesEveryArrival ==
    [][\A i \in 1..Len(vehicles) :
        LET v == vehicles[i]
            u == vehicles'[i]
            n == NumStations(v)
            m == (v.fraction + v.speed) \div ONE
            r == (v.fraction + v.speed) % ONE
            q == (Phase(v, n) + m) % (2 * (n - 1))
        IN  Updated =>
              /\ u.fraction = r
              /\ u.last_station = (IF q <= n - 1 THEN q ELSE 2 * (n - 1) - q)
              /\ u.direction = (IF q < n - 1 THEN 1 ELSE -1)
              /\ u.next_station = u.last_station + u.direction
    ]_vars

FastVehicleUpdated ==
    /\ app = "kin"
    /\ last_op.op = "update_position"
    /\ vehicles[1].speed >= 2 * ONE
    /\ Len(routes[1].stations) = 3

\* C5.  A vehicle with speed = 0 is left exactly as it was by an update:
\* last, next, direction, fraction and (x, y) are the same before and after
\* every tick, hence after any number of ticks.
ZeroSpeedIdempotent ==
    [][\A i \in 1..Len(vehicles) :
        (Updated /\ vehicles[i].speed = 0) => vehicles'[i] = vehicles[i]]_vars

ZeroSpeedVehicleUpdated ==
    /\ app = "kin"
    /\ last_op.op = "update_position"
    /\ vehicles[1].speed = 0
    /\ vehicles[1].fraction > 0

----------------------------------------------------------------------------
(* Properties of the fleets *)

Fraction(v) == IF app = "map" THEN v.position ELSE v.fraction

\* C1: every vehicle with speed >= 0 has 0 <= fraction < 1, immediately
\* after it is spawned and after any number of kinematic updates.
FractionBound ==
    \A k \in 1..Len(vehicles) :
        vehicles[k].speed >= 0 => 0 <= Fraction(vehicles[k]) /\ Fraction(vehicles[k]) < ONE

\* C2: in every reachable state every vehicle's direction is +1 or -1, its
\* last_station and next_station are indices into its route, and
\* next_station = last_station + direction.
IndexValidity ==
    \A k \in 1..Len(vehicles) :
        LET v == vehicles[k]
        IN  /\ v.direction \in {1, -1}
            /\ v.route_index \in 0..(Len(routes) - 1)
            /\ v.last_station \in 0..(NumStations(v) - 1)
            /\ v.next_station \in 0..(NumStations(v) - 1)
            /\ v.next_station = v.last_station + v.direction

\* A live fleet, spawned heading forward, holds a vehicle that a tick has
\* turned round at the end of its route.
TurnedRoundAtRouteEnd ==
    /\ app = "map"
    /\ last_op.op = "resolved"
    /\ last_op.live > 0
    /\ ticks > 0
    /\ \E k \in 1..Len(vehicles) :
          /\ vehicles[k].direction = -1
          /\ vehicles[k].last_station = NumStations(vehicles[k]) - 1

\* C7: routes and vehicles are replaced together: in every reachable state
\* every vehicle's route_index is an index into the current routes and
\* designates the route the vehicle was spawned on.
RoutesAndVehiclesReplacedTogether ==
    \A k \in 1..Len(vehicles) :
        /\ vehicles[k].route_index \in 0..(Len(routes) - 1)
        /\ routes[vehicles[k].route_index + 1] = vehicles[k].spawned_on

\* The real routes have replaced the random ones and carry a new fleet,
\* while another fetch is still pending.
RealRoutesInstalledWhileLoading ==
    /\ app = "sim"
    /\ last_op.op = "load_ok"
    /\ ~last_op.stale
    /\ loads # <<>>
    /\ vehicles # <<>>

----------------------------------------------------------------------------
(* Properties of the animation loop and of the data source *)

\* C6: after any sequence of change_animation_interval calls exactly one
\* interval is active: every interval installed before has been cleared.
ExactlyOneTicker == app = "sim" => Cardinality(intervals) = 1

\* C8: the completion of a fetch (success or error) after the mode was
\* switched to random routes leaves routes, vehicles and the pause flag as
\* they were.
LateResultDiscarded ==
    [][(last_op'.op \in {"load_ok", "load_err"} /\ last_op'.stale)
          => UNCHANGED <<routes, vehicles, paused>>]_vars

\* C9: once the resolution of the data source has completed (also when the
\* fetch failed, or gave no vehicles, or no routes), routes is not empty.
CatalogNonEmptyOnceResolved ==
    (\/ last_op.op = "resolved"
     \/ last_op.op \in {"load_ok", "load_err"} /\ ~last_op.stale)
        => routes # <<>>

\* C10: the tiers are used in rank order: the live routes exactly when the
\* live tier gave a vehicle; otherwise the static routes when a topology
\* was supplied and has a usable route; the sample routes only when no
\* topology was supplied or it has no usable route.
TiersInRankOrder ==
    last_op.op = "resolved" =>
        LET live_used == routes = create_simple_routes_for_real_time
            sample_used == routes = build_sample_routes
            static_ok == last_op.topology /\ last_op.usable > 0
        IN  /\ live_used <=> last_op.live > 0
            /\ sample_used <=> (last_op.live = 0 /\ ~static_ok)
            /\ (~live_used /\ ~sample_used) =>
                  /\ last_op.live = 0
                  /\ static_ok
                  /\ Len(routes) = last_op.usable
                  /\ \A k \in 1..Len(routes) : Len(routes[k].stations) >= 2

\* The live tier gave no vehicle and the supplied topology has no usable
\* route: the resolution fell through to the sample routes.
FellThroughToSample ==
    /\ app = "map"
    /\ last_op.op = "resolved"
    /\ last_op.live = 0
    /\ last_op.topology
    /\ last_op.usable = 0
    /\ routes = build_sample_routes

----------------------------------------------------------------------------
(* Properties of a tick *)

\* C11: a tick taken while the simulation is paused changes no vehicle and
\* no route; a tick that changes a vehicle was taken while not paused.
PausedTickChangesNothing ==
    [][frame'.tick => /\ (paused => UNCHANGED <<routes, vehicles>>)
                      /\ (vehicles' # vehicles => ~paused)]_vars

\* A paused simulation with a fleet has just been ticked.
PausedFleetTicked == frame.tick /\ paused /\ vehicles # <<>>

\* C12: every tick, paused or running, hands the routes and vehicles as
\* they are after the (possibly skipped) kinematic step to the renderer.
EveryTickDraws ==
    [][frame'.tick => /\ frame'.drawn
                      /\ frame'.routes = routes'
                      /\ frame'.vehicles = vehicles']_vars

\* C13: an unpaused tick applies the kinematic update exactly once to every
\* vehicle: each vehicle's fraction grows by its speed, modulo 1, and the
\* vehicle moves on by the whole part along the there-and-back path of its
\* route; routes, the size of the fleet and every vehicle's route_index,
\* speed and type are unchanged.
TickUpdatesEveryVehicleOnce ==
    [][(frame'.tick /\ ~paused) =>
          /\ routes' = routes
          /\ Len(vehicles') = Len(vehicles)
          /\ \A k \in 1..Len(vehicles) :
                LET v == vehicles[k]
                    u == vehicles'[k]
                    n == NumStations(v)
                    m == (Fraction(v) + v.speed) \div ONE
                    q == (Phase(v, n) + m) % (2 * (n - 1))
                IN  /\ Fraction(u) = (Fraction(v) + v.speed) % ONE
                    /\ u.last_station = (IF q <= n - 1 THEN q ELSE 2 * (n - 1) - q)
                    /\ u.direction = (IF q < n - 1 THEN 1 ELSE -1)
                    /\ u.next_station = u.last_station + u.direction
                    /\ u.route_index = v.route_index
                    /\ u.speed = v.speed
                    /\ u.vehicle_type = v.vehicle_type
                    /\ u.spawned_on = v.spawned_on
    ]_vars

\* A running simulation with at least two vehicles has just been ticked.
RunningFleetTicked ==
    /\ frame.tick
    /\ ~paused
    /\ ticks > 0
    /\ Len(vehicles) >= 2
    /\ \E k \in 1..Len(vehicles) : vehicles[k].speed > 0

----------------------------------------------------------------------------
(* Properties of the controls *)

\* C14: toggle_pause negates the paused flag and returns the new value;
\* routes, vehicles, the tick interval (its length and its handles) and the
\* camera are unchanged by it.
TogglePauseOnlyFlipsFlag ==
    [][(last_op'.op = "toggle_pause" /\ last_op' # last_op) =>
          /\ paused' = ~paused
          /\ last_op'.returned = paused'
          /\ UNCHANGED <<routes, vehicles, update_interval_ms, interval_id_cell,
                         intervals, camera, debug_mode, loads>>
    ]_vars

\* A running fleet has been paused by toggle_pause.
FleetPausedByToggle ==
    /\ last_op.op = "toggle_pause"
    /\ last_op.returned
    /\ paused
    /\ vehicles # <<>>
    /\ ticks > 0

----------------------------------------------------------------------------
(* Properties of the spawn *)

----------------------------------------------------------------------------
(* Properties of the live tier *)

\* The positions in the response q of the predictions that carry the
\* vehicle id and a time to station.
Candidates(q, id) ==
    {j \in 1..Len(q) : q[j].vehicle_id = <<id>> /\ q[j].time_to_station # <<>>}

\* The first position among those of the smallest time to station.
FirstSoonest(q, id) ==
    CHOOSE j \in Candidates(q, id) :
        \A i \in Candidates(q, id) :
            \/ q[j].time_to_station[1] < q[i].time_to_station[1]
            \/ q[j].time_to_station[1] = q[i].time_to_station[1] /\ j <= i

\* C16: of one line's predictions at most one is kept per vehicle id: the
\* one with the smallest time to station, the first seen among equals.
KeepsSoonestPerVehicle ==
    last_op.op = "line_processed" =>
        LET q == last_op.predictions
            kept == last_op.vehicle_map
        IN  /\ DOMAIN kept = {id \in {"v1", "v2"} : Candidates(q, id) # {}}
            /\ \A id \in DOMAIN kept : kept[id] = q[FirstSoonest(q, id)]
            /\ Len(vehicles) <= Cardinality(DOMAIN kept)

\* Three predictions of one vehicle, the last two at the same, smallest
\* time, were processed: the second one is kept.
TieBrokenByFirstSeen ==
    /\ last_op.op = "line_processed"
    /\ Len(last_op.predictions) = 3
    /\ Candidates(last_op.predictions, "v1") = {1, 2, 3}
    /\ last_op.predictions[1].time_to_station[1] > last_op.predictions[2].time_to_station[1]
    /\ last_op.predictions[2].time_to_station = last_op.predictions[3].time_to_station
    /\ last_op.predictions[2] # last_op.predictions[3]
    /\ last_op.vehicle_map["v1"] = last_op.predictions[2]
    /\ Len(vehicles) = 1

\* A prediction none of whose four fields is absent.
Complete(p) ==
    /\ p.vehicle_id # <<>>
    /\ p.time_to_station # <<>>
    /\ p.line_id # <<>>
    /\ p.current_location # <<>>

\* C17: a prediction lacking a field is skipped on its own: every vehicle
\* id with a complete prediction in the response yields exactly one vehicle,
\* and no other vehicle is built.
CompletePredictionYieldsVehicle ==
    last_op.op = "line_processed" =>
        LET q == last_op.predictions
        IN  Len(vehicles) =
                Cardinality({id \in {"v1", "v2"} :
                    \E j \in 1..Len(q) : Complete(q[j]) /\ q[j].vehicle_id = <<id>>})

\* What the code does instead: a vehicle per vehicle id whose soonest
\* prediction is complete.
SoonestCompleteYieldsVehicle ==
    last_op.op = "line_processed" =>
        LET q == last_op.predictions
        IN  Len(vehicles) =
                Cardinality({id \in {"v1", "v2"} :
                    /\ Candidates(q, id) # {}
                    /\ Complete(q[FirstSoonest(q, id)])})

\* C18: a live vehicle's initial fraction is (600 - min(t, 600)) / 600 for
\* the time to station t of its prediction, and 0 <= fraction < 1.
LiveFractionBound ==
    last_op.op = "line_processed" =>
        \A k \in 1..Len(vehicles) :
            /\ \E id \in DOMAIN last_op.vehicle_map :
                  LET t == last_op.vehicle_map[id].time_to_station[1]
                  IN  vehicles[k].position * 600 = (600 - (IF t < 600 THEN t ELSE 600)) * ONE
            /\ 0 <= vehicles[k].position
            /\ vehicles[k].position < ONE

\* The first half of C18 alone, and the bound the code does keep.
LiveFractionClosed ==
    last_op.op = "line_processed" =>
        \A k \in 1..Len(vehicles) :
            /\ \E id \in DOMAIN last_op.vehicle_map :
                  LET t == last_op.vehicle_map[id].time_to_station[1]
                  IN  vehicles[k].position * 600 = (600 - (IF t < 600 THEN t ELSE 600)) * ONE
            /\ 0 <= vehicles[k].position
            /\ vehicles[k].position <= ONE

----------------------------------------------------------------------------
(* Derived positions *)

\* The interpolation between the waypoints p1 and p2 at fraction f.
Lerp(p1, p2, f) == <<p1[1] + Mul(p2[1] - p1[1], f), p1[2] + Mul(p2[2] - p1[2], f)>>

StoredPosition(v) == IF app = "map" THEN <<v.lng, v.lat>> ELSE <<v.x, v.y>>

\* C19: in every reachable state, right after a fleet is built included,
\* each vehicle's stored position is the interpolation between the waypoints
\* at last_station and next_station of its route at its fraction.
PositionIsDerived ==
    \A k \in 1..Len(vehicles) :
        LET v == vehicles[k]
        IN  StoredPosition(v) =
                Lerp(Station(RouteOf(v), v.last_station),
                     Station(RouteOf(v), v.next_station), Fraction(v))

----------------------------------------------------------------------------
(* Spawn policy *)

\* The slice [i/c, (i+1)/c) holds the fraction f.
InSlice(f, i, c) == (i * ONE) \div c <= f /\ f < ((i + 1) * ONE) \div c

\* C20: of the n vehicles given to a route of at least 2 waypoints the
\* first floor(n/2) start forward (last 0, next 1, direction +1) and the
\* other n - floor(n/2) backward (last len-1, next len-2, direction -1); the
\* i-th vehicle of a direction group of size c draws its fraction from the
\* slice [i/c, (i+1)/c), so no two vehicles of a group share a slice.
SpawnSplitAndSlices ==
    (last_op.op = "route_spawned" /\ Len(routes[1].stations) >= 2) =>
        LET created == last_op.created
            n == last_op.per_route
            count_fwd == n \div 2
            count_bwd == n - count_fwd
            len == Len(routes[1].stations)
        IN  /\ Len(created) = n
            /\ \A k \in 1..count_fwd :
                  /\ created[k].direction = 1
                  /\ created[k].last_station = 0
                  /\ created[k].next_station = 1
                  /\ InSlice(created[k].fraction, k - 1, count_fwd)
                  /\ \A j \in 1..count_fwd :
                        j # k => ~InSlice(created[j].fraction, k - 1, count_fwd)
            /\ \A k \in 1..count_bwd :
                  /\ created[count_fwd + k].direction = -1
                  /\ created[count_fwd + k].last_station = len - 1
                  /\ created[count_fwd + k].next_station = len - 2
                  /\ InSlice(created[count_fwd + k].fraction, k - 1, count_bwd)
                  /\ \A j \in 1..count_bwd :
                        j # k => ~InSlice(created[count_fwd + j].fraction, k - 1, count_bwd)

\* The split alone, with the closed slice [i/c, (i+1)/c] the code keeps.
SpawnSplitAndClosedSlices ==
    (last_op.op = "route_spawned" /\ Len(routes[1].stations) >= 2) =>
        LET created == last_op.created
            n == last_op.per_route
            count_fwd == n \div 2
            count_bwd == n - count_fwd
            len == Len(routes[1].stations)
        IN  /\ Len(created) = n
            /\ \A k \in 1..count_fwd :
                  /\ created[k].direction = 1
                  /\ created[k].last_station = 0
                  /\ created[k].next_station = 1
                  /\ ((k - 1) * ONE) \div count_fwd <= created[k].fraction
                  /\ created[k].fraction <= (k * ONE) \div count_fwd
            /\ \A k \in 1..count_bwd :
                  /\ created[count_fwd + k].direction = -1
                  /\ created[count_fwd + k].last_station = len - 1
                  /\ created[count_fwd + k].next_station = len - 2
                  /\ ((k - 1) * ONE) \div count_bwd <= created[count_fwd + k].fraction
                  /\ created[count_fwd + k].fraction <= (k * ONE) \div count_bwd

----------------------------------------------------------------------------
(* Properties of the camera *)

\* The step was the delivery of the input event `op`.
Delivered(op) == inputs' = inputs + 1 /\ last_op'.op = op

\* The squared world distance of vehicle k + 1 from the world point of the
\* screen point p.
DistSq(k, p) ==
    Sq(vehicles[k].x - ScreenToWorld(p[1], camera.pan_x, camera.scale))
    + Sq(vehicles[k].y - ScreenToWorld(p[2], camera.pan_y, camera.scale))

\* The vehicles within threshold_px / scale of the world point of p.
InRadius(p) ==
    {k \in 1..Len(vehicles) :
        WithinThreshold(vehicles[k].x - ScreenToWorld(p[1], camera.pan_x, camera.scale),
                        vehicles[k].y - ScreenToWorld(p[2], camera.pan_y, camera.scale),
                        camera.scale)}

\* C21: a pick at the screen point p selects the vehicle of the smallest
\* squared world distance from p / scale + pan among those nearer than
\* 10 / scale, the lowest index among equally near ones, and clears the
\* selection when there is none; nothing but the selection and the follow
\* flag changes.  At scale 2.0 the radius is 5.0.
PickSelectsNearest ==
    [][(Delivered("click") /\ last_op'.picked) =>
          LET p == last_op'.p
          IN  /\ camera'.selected_vehicle_index =
                    (IF InRadius(p) = {} THEN <<>>
                     ELSE <<(CHOOSE k \in InRadius(p) :
                               \A j \in InRadius(p) :
                                   \/ DistSq(k, p) < DistSq(j, p)
                                   \/ DistSq(k, p) = DistSq(j, p) /\ k <= j) - 1>>)
              /\ camera'.pan_x = camera.pan_x
              /\ camera'.pan_y = camera.pan_y
              /\ camera'.scale = camera.scale
              /\ (camera.scale = 2 * ONE =>
                     \A k \in 1..Len(vehicles) :
                         /\ k \in InRadius(p) => DistSq(k, p) < 25 * ONE
                         /\ (Abs(vehicles[k].x - ScreenToWorld(p[1], camera.pan_x, camera.scale)) = 0
                             /\ Abs(vehicles[k].y - ScreenToWorld(p[2], camera.pan_y, camera.scale)) < 5 * ONE)
                                => k \in InRadius(p))]_vars

\* A click as far from one vehicle as from another selected the one of the
\* lower index.
TiePickedLowestIndex ==
    /\ last_op.op = "click"
    /\ last_op.picked
    /\ camera.selected_vehicle_index # <<>>
    /\ \E j \in InRadius(last_op.p) :
          /\ j - 1 > camera.selected_vehicle_index[1]
          /\ DistSq(j, last_op.p) = DistSq(camera.selected_vehicle_index[1] + 1, last_op.p)

\* At scale 2.0 a click 4.99 from a vehicle selected it and a click 5.01
\* from one cleared the selection.
PickedAtScaleTwo ==
    /\ last_op.op = "click"
    /\ last_op.picked
    /\ camera.scale = 2 * ONE
    /\ camera.selected_vehicle_index # <<>>
    /\ DistSq(camera.selected_vehicle_index[1] + 1, last_op.p) > 24 * ONE

ClearedAtScaleTwo ==
    /\ last_op.op = "click"
    /\ last_op.picked
    /\ camera.scale = 2 * ONE
    /\ camera.selected_vehicle_index = <<>>
    /\ \E k \in 1..Len(vehicles) :
          /\ vehicles[k].x = ScreenToWorld(last_op.p[1], camera.pan_x, camera.scale)
          /\ Abs(vehicles[k].y - ScreenToWorld(last_op.p[2], camera.pan_y, camera.scale)) < 5020

\* C22: a pick that finds no vehicle within the radius clears the selection
\* and turns follow mode off with it; in every state reached, follow mode
\* is on only while a vehicle is selected.
FollowOnlyWhileSelected ==
    [][/\ camera'.follow_mode => camera'.selected_vehicle_index # <<>>
       /\ \A op \in {"click", "touchend_select"} :
             (Delivered(op) /\ camera' # camera /\ camera'.selected_vehicle_index = <<>>)
                => ~camera'.follow_mode]_vars

\* Follow mode is on, and a tick has recentred the camera on the selection.
FollowingSelection ==
    /\ camera.follow_mode
    /\ camera.selected_vehicle_index # <<>>
    /\ last_op.op = "tick"
    /\ last_op.updated

\* The pan that puts the selected vehicle of the camera cam at the centre of
\* the viewport.
Centred(cam, vs) ==
    LET vehicle == vs[cam.selected_vehicle_index[1] + 1]
    IN  /\ cam.pan_x = vehicle.x - (Div(CanvasWidth, cam.scale) \div 2)
        /\ cam.pan_y = vehicle.y - (Div(CanvasHeight, cam.scale) \div 2)

Following ==
    /\ camera.follow_mode
    /\ camera.selected_vehicle_index # <<>>
    /\ camera.selected_vehicle_index[1] < Len(vehicles)

\* C23: on every tick, paused or running, with a vehicle selected and
\* follow mode on, pan is recomputed as the vehicle's position less half the
\* viewport's size over the scale.
FollowRecentresEveryTick ==
    [][(frame'.tick /\ Following) => Centred(camera', vehicles')]_vars

\* What the code does: the ticks of a running simulation recentre.
FollowRecentresRunningTick ==
    [][(frame'.tick /\ Following /\ ~paused) => Centred(camera', vehicles')]_vars

ScaleInRange(cam) == ScaleMin <= cam.scale /\ cam.scale <= ScaleMax

\* C24: from a scale within [0.1, 50] every wheel notch (x1.1 in, x0.9
\* out) and every pinch leaves the scale within [0.1, 50]; no other step
\* changes the scale.
ZoomStaysInRange ==
    [][ScaleInRange(camera) =>
          /\ ScaleInRange(camera')
          /\ Delivered("wheel") =>
                camera'.scale =
                    Clamp(Mul(camera.scale,
                              IF last_op'.delta < 0 THEN (11 * ONE) \div 10
                              ELSE (9 * ONE) \div 10))
          /\ camera'.scale # camera.scale => (Delivered("wheel") \/ Delivered("touchmove"))]_vars

\* The camera read from the DOM with scale 50 and pan 0 was zoomed in by
\* one notch, and the scale is still 50.
ZoomClampedAtBound ==
    /\ last_op.op = "wheel"
    /\ last_op.delta < 0
    /\ camera.scale = ScaleMax
    /\ camera.pan_x = 0
    /\ inputs = 1

\* C25: in every camera state, the one initialised from the DOM inputs
\* included, 0.1 <= scale <= 50.
ScaleAlwaysInRange == app = "sim" => ScaleInRange(camera)

\* The lower bound alone, which initialize_camera_from_dom enforces.
ScaleAboveMin == app = "sim" => ScaleMin <= camera.scale

\* One unit of the fixed-point resolution carried through a multiplication
\* and a division by scale: the rounding a round trip may show.
Tolerance(scale) ==
    (IF scale \div ONE > ONE \div scale THEN scale \div ONE ELSE ONE \div scale) + 1

\* Screen coordinates across the canvas.
ScreenCoords == {0, 1, 333, 100 * ONE, 130 * ONE + 7, CanvasWidth - 1, CanvasWidth}

ScreenRoundTrip(p, pan, scale) ==
    Abs(WorldToScreen(ScreenToWorld(p, pan, scale), pan, scale) - p) <= Tolerance(scale)

WorldRoundTrip(w, pan, scale) ==
    Abs(ScreenToWorld(WorldToScreen(w, pan, scale), pan, scale) - w) <= Tolerance(scale)

\* C26: for every pan and every scale in [0.1, 50], a screen point taken to
\* world coordinates (p / scale + pan) and back ((w - pan) * scale) is the
\* same point, and a world point on the canvas taken to the screen and back
\* is the same point, up to the rounding of the arithmetic.
CameraRoundTrip ==
    (app = "sim" /\ ScaleInRange(camera)) =>
        /\ \A p \in ScreenCoords \cup (IF last_op.op = "click" THEN {last_op.p[1], last_op.p[2]} ELSE {}) :
              /\ ScreenRoundTrip(p, camera.pan_x, camera.scale)
              /\ ScreenRoundTrip(p, camera.pan_y, camera.scale)
        /\ \A k \in 1..Len(vehicles) :
              OnCanvas(<<vehicles[k].x, vehicles[k].y>>, camera) =>
                  /\ WorldRoundTrip(vehicles[k].x, camera.pan_x, camera.scale)
                  /\ WorldRoundTrip(vehicles[k].y, camera.pan_y, camera.scale)

\* A click picked a vehicle drawn on the canvas of a camera that is both
\* panned and zoomed.
RoundTripWhilePannedAndZoomed ==
    /\ last_op.op = "click"
    /\ last_op.picked
    /\ camera.scale # ONE
    /\ camera.pan_x # 0
    /\ camera.pan_y # 0
    /\ camera.selected_vehicle_index # <<>>
    /\ OnCanvas(<<vehicles[camera.selected_vehicle_index[1] + 1].x,
                  vehicles[camera.selected_vehicle_index[1] + 1].y>>, camera)

\* C27: a mousemove during a drag, by the screen delta d from the last
\* pointer position, subtracts d / scale from the pan and changes nothing
\* else in the camera, so the world point that was under the pointer is
\* under it again (up to one unit of rounding); a mousemove while no drag is
\* in progress leaves the camera as it was.
DragPansByScaledDelta ==
    [][Delivered("mousemove") =>
          LET dx == last_op'.p[1] - drag.last_x
              dy == last_op'.p[2] - drag.last_y
          IN  IF drag.is_dragging
              THEN /\ camera'.pan_x = camera.pan_x - Div(dx, camera.scale)
                   /\ camera'.pan_y = camera.pan_y - Div(dy, camera.scale)
                   /\ camera'.scale = camera.scale
                   /\ camera'.selected_vehicle_index = camera.selected_vehicle_index
                   /\ camera'.follow_mode = camera.follow_mode
                   /\ Abs(ScreenToWorld(last_op'.p[1], camera'.pan_x, camera'.scale)
                          - ScreenToWorld(drag.last_x, camera.pan_x, camera.scale)) <= 1
                   /\ Abs(ScreenToWorld(last_op'.p[2], camera'.pan_y, camera'.scale)
                          - ScreenToWorld(drag.last_y, camera.pan_y, camera.scale)) <= 1
              ELSE camera' = camera]_vars

\* At scale 2.0 and pan (490, 490) the pointer was dragged from (100, 100)
\* to (130, 90): the pan is (475, 495).
DraggedAtScaleTwo ==
    /\ last_op.op = "mousemove"
    /\ drag.is_dragging
    /\ drag.last_x = 130 * ONE
    /\ drag.last_y = 90 * ONE
    /\ camera.scale = 2 * ONE
    /\ camera.pan_x = 475 * ONE
    /\ camera.pan_y = 495 * ONE

\* A mousemove arrived while no drag was in progress.
MovedWithoutDrag ==
    /\ last_op.op = "mousemove"
    /\ ~drag.is_dragging
    /\ inputs = 1

\* A step that delivered one sample to auto_adjust_interval.
Sampled == last_op'.op = "auto_adjust_interval"

\* C28: a sample that is not the 10th is added to the total and leaves the
\* interval untouched; the 10th sample sets the interval to 33 ms when the
\* average of the ten exceeds 8 ms and to 16 ms otherwise.
CalibrationDecidesOnTenthSample ==
    [][(Sampled /\ calibration.frame_count < 10) =>
          /\ calibration'.frame_count = calibration.frame_count + 1
          /\ calibration'.total_frame_time =
                calibration.total_frame_time + last_op'.frame_time_ms
          /\ IF calibration'.frame_count < 10
             THEN update_interval_ms' = update_interval_ms
             ELSE update_interval_ms' =
                     (IF calibration'.total_frame_time > 10 * 8 * ONE THEN 33 ELSE 16)]_vars

\* Ten samples averaging exactly 8 ms replaced a chosen 33 ms by 16 ms, and
\* ten samples averaging 8.0001 ms replaced 16 ms by 33 ms.
DecidedFastAtThreshold ==
    /\ last_op.op = "auto_adjust_interval"
    /\ calibration.frame_count = 10
    /\ calibration.total_frame_time = 10 * 8 * ONE
    /\ update_interval_ms = 16
    /\ next_handle > 2

DecidedSlowAboveThreshold ==
    /\ last_op.op = "auto_adjust_interval"
    /\ calibration.frame_count = 10
    /\ calibration.total_frame_time = 10 * 8 * ONE + 1
    /\ update_interval_ms = 33
    /\ next_handle = 2

\* C29: once the decision is taken (ten samples counted), the counter does
\* not restart and no later sample changes the interval.
CalibrationRunsOnce ==
    [][calibration.frame_count = 10 =>
          /\ calibration'.frame_count = 10
          /\ Sampled => update_interval_ms' = update_interval_ms]_vars

\* The same, for the steps other than ticking the autoFps checkbox.
CalibrationRunsOnceUnlessReenabled ==
    [][(calibration.frame_count = 10 /\ ~(last_op'.op = "autoFps" /\ last_op'.checked)) =>
          /\ calibration'.frame_count = 10
          /\ calibration'.total_frame_time = calibration.total_frame_time
          /\ Sampled => update_interval_ms' = update_interval_ms]_vars

\* The vehicles of type t in the fleet vs.
OfType(vs, t) == {k \in 1..Len(vs) : vs[k].vehicle_type = t}

\* The counts get_vehicle_counts() returns are those of the fleet vs.
CountsMatch(counts, vs) ==
    /\ counts.buses = Cardinality(OfType(vs, "Bus"))
    /\ counts.trains = Cardinality(OfType(vs, "Train"))
    /\ counts.total = counts.buses + counts.trains
    /\ counts.total = Len(vs)

\* C30: after every unpaused tick, every data-source switch and every load
\* completion, the counts reported equal the numbers of buses and of trains
\* in the fleet, and total = buses + trains = the size of the fleet.
VehicleCountsMatchFleet ==
    [][((frame'.tick /\ ~paused)
        \/ last_op'.op \in {"set_data_source_mode", "load_ok", "load_err"}) =>
          CountsMatch(vehicle_counts', vehicles')]_vars

\* A load completed in real mode and built a fleet of both types, which a
\* tick then moved.
CountedLoadedFleet ==
    /\ last_op.op = "tick"
    /\ last_op.updated
    /\ ~debug_mode
    /\ vehicle_counts.buses > 0
    /\ vehicle_counts.trains > 0
    /\ vehicle_counts.total = Len(vehicles)

\* A switch to real data emptied a fleet that had been counted.
CountedClearedFleet ==
    /\ last_op.op = "set_data_source_mode"
    /\ ~last_op.use_random
    /\ vehicle_counts = DefaultCounts
    /\ vehicles = <<>>

\* In every state of the simulation the counts are those of the fleet.
VehicleCountsAlwaysMatch == app = "sim" => CountsMatch(vehicle_counts, vehicles)

----------------------------------------------------------------------------
(* Properties of the fleet sizes, the pause flag and the selection *)

\* init_vehicles has run on a catalog whose routes all have 2 stations or
\* more.
BuiltOnUsableCatalog ==
    /\ app = "sim"
    /\ last_op.op = "init_vehicles"
    /\ routes # <<>>
    /\ \A k \in 1..Len(routes) : Len(routes[k].stations) >= 2

\* C31: init_vehicles on a non-empty catalog of routes of 2 stations or more
\* creates exactly FleetPerType buses and FleetPerType trains (1000 and 1000
\* in the program's sizes), whatever the numbers of routes of each type.
FullFleetOfEachType ==
    BuiltOnUsableCatalog =>
        /\ Cardinality(OfType(vehicles, "Bus")) = FleetPerType
        /\ Cardinality(OfType(vehicles, "Train")) = FleetPerType

\* What init_vehicles does create: the whole multiple of the number of
\* routes of a type that fits in FleetPerType, and nothing for a type
\* without routes.
FleetIsWholeMultiple ==
    BuiltOnUsableCatalog =>
        LET train_routes == Min(Len(routes), TrainRouteCap)
            num_bus_routes == Len(routes) - train_routes
        IN  /\ Cardinality(OfType(vehicles, "Train")) =
                  train_routes * (FleetPerType \div train_routes)
            /\ Cardinality(OfType(vehicles, "Bus")) =
                  (IF num_bus_routes = 0 THEN 0
                   ELSE num_bus_routes * (FleetPerType \div num_bus_routes))

\* A step in which an asynchronous fetch or initialisation completed.
Completed == Len(loads') < Len(loads)

\* C32: a pause requested through toggle_pause stays in effect when a fetch
\* that was already in flight completes, with success or with an error.
PauseSurvivesCompletion ==
    [][(last_op.op = "toggle_pause" /\ paused /\ Completed) => paused']_vars

\* The one completion that does keep the pause: a successful fetch of the
\* canvas simulator that arrives after the switch back to random routes.
PauseSurvivesStaleSuccess ==
    [][(app = "sim" /\ paused /\ last_op'.op = "load_ok" /\ debug_mode) => paused']_vars

\* C33: when the user never requests a pause, the simulation is running
\* whenever no fetch is outstanding, after any sequence of data-source
\* switches.
RunningOnceFetchesComplete ==
    (app = "sim" /\ loads = <<>>) => ~paused

\* The same for the real-data mode alone: there the completions resume the
\* simulation.
RunningOnceRealDataLoaded ==
    (app = "sim" /\ loads = <<>> /\ ~debug_mode) => ~paused

\* C34: set_data_source_mode(true) leaves the paused flag as it was before
\* the call.
RandomSwitchKeepsPause ==
    [][(last_op'.op = "set_data_source_mode" /\ last_op'.use_random) =>
          paused' = paused]_vars

\* A running simulation was switched to random routes and is running, with
\* the rebuilt fleet.
SwitchedToRandomWhileRunning ==
    /\ last_op.op = "set_data_source_mode"
    /\ last_op.use_random
    /\ ~paused
    /\ vehicles # <<>>

\* A paused simulation was switched to random routes and is still paused.
SwitchedToRandomWhilePaused ==
    /\ last_op.op = "set_data_source_mode"
    /\ last_op.use_random
    /\ paused
    /\ vehicles # <<>>

\* C35: the click that ends a drag gesture (mousedown, mousemove, mouseup,
\* click) leaves selected_vehicle_index and follow_mode unchanged.
ClickAfterDragPicksNothing ==
    [][(last_op.op = "mouseup" /\ last_op'.op = "click") =>
          /\ camera'.selected_vehicle_index = camera.selected_vehicle_index
          /\ camera'.follow_mode = camera.follow_mode]_vars

\* What the click closure does guarantee: a click delivered while the
\* button is still down leaves the camera unchanged.
ClickDuringDragIgnored ==
    [][(last_op'.op = "click" /\ drag.is_dragging) => camera' = camera]_vars

\* C36: the selected index is None or an index into the fleet, also after a
\* data-source switch has cleared or rebuilt the fleet.
SelectionWithinFleet ==
    (app = "sim" /\ camera.selected_vehicle_index # <<>>) =>
        camera.selected_vehicle_index[1] < Len(vehicles)

\* A switch or a completed load leaves the selection as it found it.
SwitchKeepsSelection ==
    [][last_op'.op \in {"set_data_source_mode", "load_ok", "load_err"} =>
          camera' = camera]_vars

\* C37: in the map simulation at most one animation interval is active in
\* every state, and a step that starts a loop leaves the new interval as the
\* only one, the one window.__rustAnimIntervalId holds.
AtMostOneMapInterval ==
    /\ [](app = "map" => Cardinality(intervals) <= 1)
    /\ [][(app = "map" /\ next_handle' # next_handle) =>
             /\ intervals' = {next_handle}
             /\ interval_id_cell' = <<next_handle>>]_vars

\* A second loop was started while the fetch of a later initialisation or
\* reset was still in flight.
LoopRestartedDuringFetch ==
    /\ app = "map"
    /\ next_handle > 2
    /\ Cardinality(intervals) = 1
    /\ loads # <<>>

\* update_with_real_routes has just run on the loaded data.
RealRoutesLoaded == app = "sim" /\ last_op.op = "load_ok" /\ ~last_op.stale

\* C38: after update_with_real_routes every vehicle on a route built by
\* build_real_train_routes (the first train_rows routes) is a Train and
\* every vehicle on a route built by build_real_bus_routes is a Bus.
TypeFollowsRouteBuilder ==
    RealRoutesLoaded =>
        \A k \in 1..Len(vehicles) :
            vehicles[k].vehicle_type =
                (IF vehicles[k].route_index < last_op.train_rows THEN "Train" ELSE "Bus")

\* What init_vehicles does: the type follows the position of the route in
\* the catalog, the first TrainRouteCap routes being taken as train routes.
TypeFollowsRoutePosition ==
    RealRoutesLoaded =>
        \A k \in 1..Len(vehicles) :
            vehicles[k].vehicle_type =
                (IF vehicles[k].route_index < Min(Len(routes), TrainRouteCap)
                 THEN "Train" ELSE "Bus")

----------------------------------------------------------------------------
(* Properties of the shuttle *)

\* The stations the vehicle v arrives at during one update_position, in
\* order: one per pass of the `while` loop.
RECURSIVE ArrivalsFrom(_, _)
ArrivalsFrom(v, route) ==
    IF v.fraction >= ONE
    THEN <<v.next_station>> \o ArrivalsFrom(Arrive(v, route), route)
    ELSE <<>>

ArrivalsOfTick ==
    ArrivalsFrom([vehicles[1] EXCEPT !.fraction = @ + vehicles[1].speed], routes[1])

\* The tick takes the vehicle to the station j.
ArrivesAt(j) ==
    /\ Updated
    /\ \E k \in 1..Len(ArrivalsOfTick) : ArrivalsOfTick[k] = j

\* Every arrival of the tick is at a station next to the one before.
PassesEveryStation ==
    LET arrivals == <<vehicles[1].last_station>> \o ArrivalsOfTick
    IN  \A k \in 1..(Len(arrivals) - 1) : Abs(arrivals[k + 1] - arrivals[k]) = 1

\* C39: under fair ticking a vehicle with speed > 0 arrives at the first
\* and at the last station of its route infinitely often, and between two
\* arrivals it never skips a station.
ShuttlesOverWholeRoute ==
    /\ []<><<ArrivesAt(0)>>_vars
    /\ []<><<ArrivesAt(NumStations(vehicles[1]) - 1)>>_vars
    /\ [][Updated => PassesEveryStation]_vars

\* A slow vehicle has just turned round at the far end of a route of three
\* stations or more.
TurnedRoundAtFarEnd ==
    /\ app = "kin"
    /\ last_op.op = "update_position"
    /\ vehicles[1].speed > 0
    /\ vehicles[1].speed < ONE
    /\ vehicles[1].fraction < vehicles[1].speed
    /\ NumStations(vehicles[1]) >= 3
    /\ vehicles[1].last_station = NumStations(vehicles[1]) - 1
    /\ vehicles[1].direction = -1

\* The vehicle v of the canvas simulator as a vehicle of the map: the same
\* indices, direction, speed, progress and position.
AsMapVehicle(v) ==
    MapVehicle(0, v.vehicle_type, v.route_index, "central", v.fraction, v.speed,
               v.direction, v.last_station, v.next_station, v.x, v.y)

\* C40: from the same index-valid vehicle on the same route, the map's
\* update_vehicle_positions and the canvas simulator's update_position
\* compute the same last_station, next_station, direction and fraction (and
\* the same interpolated position).
KinematicStepsAgree ==
    [][Updated =>
          LET m == update_vehicle_positions(<<AsMapVehicle(vehicles[1])>>, routes)[1]
              u == vehicles'[1]
          IN  /\ m.last_station = u.last_station
              /\ m.next_station = u.next_station
              /\ m.direction = u.direction
              /\ m.position = u.fraction
              /\ <<m.lng, m.lat>> = <<u.x, u.y>>]_vars

\* The scenario of the kinematics: on the route (0,0),(10,0) the vehicle
\* with speed 0.3, direction 1, fraction 0.9, last 0, next 1 is, after one
\* tick of either variant, at fraction 0.2 with last 1, next 0, direction
\* -1 and position (8, 0).
BouncedInBothVariants ==
    /\ app = "kin"
    /\ last_op.op = "update_position"
    /\ last_op.beat = 0
    /\ routes[1].stations = <<<<0, 0>>, <<10 * ONE, 0>>>>
    /\ vehicles[1].speed = (3 * ONE) \div 10
    /\ vehicles[1].fraction = ONE \div 5
    /\ vehicles[1].last_station = 1
    /\ vehicles[1].next_station = 0
    /\ vehicles[1].direction = -1
    /\ <<vehicles[1].x, vehicles[1].y>> = <<8 * ONE, 0>>

====
